---- MODULE Spec2Model ----
(***************************************************************************)
(* REST convention validator: rule registry / engine (Validator), the      *)
(* three built-in structural rules, the JSON-defined declarative rule and  *)
(* the URL path synthesizer.                                               *)
(*                                                                         *)
(* Go strings that the code inspects character by character (path          *)
(* templates) are sequences of one-character strings.  Strings the code    *)
(* only compares or concatenates (rule names, map keys, messages) are TLA+ *)
(* strings.  A Go value of type interface{} is a tagged record:            *)
(*   [t |-> "nil"], [t |-> "str", v |-> s], [t |-> "num"],                  *)
(*   [t |-> "list", l |-> seq], [t |-> "map", m |-> function].             *)
(* A Go map is a TLA+ function whose DOMAIN is the set of keys present.    *)
(* Ranging over a Go map visits the keys in an order the runtime picks     *)
(* afresh for every range statement: every order is a possible outcome.    *)
(***************************************************************************)
EXTENDS Integers, Sequences, FiniteSets, TLC

\* ------------------------------------------------------------------ bounds
MaxFiles == 3        \* rule files in the rules directory
MaxRuleList == 2     \* entries of the caller's "rules" parameter
MaxCalls == 2        \* times one request is submitted
MaxPathLen == 4      \* length of the exhaustively enumerated URL paths
MaxSpecPaths == 2    \* path keys of an enumerated specification

\* ------------------------------------------------------------ Go values
Nil == [t |-> "nil"]
Num == [t |-> "num"]
Str(s) == [t |-> "str", v |-> s]
List(l) == [t |-> "list", l |-> l]
Map(f) == [t |-> "map", m |-> f]
EmptyMap == Map(<<>>)

\* v, ok := m[k].(map[string]interface{})  -- ok
IsMapAt(m, k) == k \in DOMAIN m /\ m[k].t = "map"
\* v, ok := m[k].(string)  -- ok
IsStrAt(m, k) == k \in DOMAIN m /\ m[k].t = "str"

\* ------------------------------------------------------ package strings
HasPrefix(s, prefix) ==
    Len(s) >= Len(prefix) /\ SubSeq(s, 1, Len(prefix)) = prefix

HasSuffix(s, suffix) ==
    Len(s) >= Len(suffix) /\ SubSeq(s, Len(s) - Len(suffix) + 1, Len(s)) = suffix

Contains(s, substr) ==
    \E i \in 1..(Len(s) - Len(substr) + 1) : SubSeq(s, i, i + Len(substr) - 1) = substr

\* strings.Split(s, "/"): the pieces between the separators; Split("", "/") = [""]
RECURSIVE Split(_)
Split(s) ==
    IF \A i \in 1..Len(s) : s[i] # "/"
    THEN <<s>>
    ELSE LET i == CHOOSE k \in 1..Len(s) :
                      s[k] = "/" /\ \A j \in 1..(k - 1) : s[j] # "/"
         IN  <<SubSeq(s, 1, i - 1)>> \o Split(SubSeq(s, i + 1, Len(s)))

\* strings.ToLower / strings.ToUpper on the map keys the model uses
ToLower(s) ==
    CASE s = "POST" -> "post"
      [] s = "Put" -> "put"
      [] s = "GET" -> "get"
      [] s = "DELETE" -> "delete"
      [] OTHER -> s

ToUpper(s) ==
    CASE s = "get" -> "GET"
      [] s = "post" -> "POST"
      [] s = "put" -> "PUT"
      [] s = "Put" -> "PUT"
      [] s = "patch" -> "PATCH"
      [] s = "delete" -> "DELETE"
      [] OTHER -> s

\* ------------------------------------------------- ranging over a Go map
\* every order in which a range statement can visit the key set S
Perms(S) ==
    {p \in [1..Cardinality(S) -> S] : \A i, j \in 1..Cardinality(S) : i # j => p[i] # p[j]}

\* the issue lists a loop can append when it visits the keys in this order and
\* body[k] is the set of lists the iteration for key k can append
RECURSIVE AppendInOrder(_, _)
AppendInOrder(order, body) ==
    IF order = <<>>
    THEN {<<>>}
    ELSE {a \o b : a \in body[Head(order)], b \in AppendInOrder(Tail(order), body)}

RangeMap(body) ==
    UNION {AppendInOrder(order, body) : order \in Perms(DOMAIN body)}

\* SetResults storing the issues list whatever the status
SetResults_AlwaysIssues(issues) ==
    [status |-> IF Len(issues) > 0 THEN "failed" ELSE "passed", issues |-> issues]

\* the tail shared by every Apply: status from the collected issues
SetResults(issues) ==
    IF Len(issues) > 0
    THEN [status |-> "failed", issues |-> issues]
    ELSE [status |-> "passed"]

InvalidSpec == [status |-> "error", message |-> "invalid API spec"]
NoPaths == [status |-> "error", message |-> "API spec does not have paths"]

\* ---------------------------------------------------- SolaceRestRules
checkMethodPathConsistency(path, methodKey) ==
    LET method == ToLower(methodKey)
        endsWithID == Contains(path, <<"/", "{">>) /\ HasSuffix(path, <<"}">>)
    IN  CASE method = "get" -> Nil
          [] method = "post" ->
                IF endsWithID
                THEN [path |-> path, method |-> method,
                      message |-> "POST should be used for collection paths, not for specific resources"]
                ELSE Nil
          [] method \in {"put", "patch", "delete"} ->
                IF ~endsWithID
                THEN [path |-> path, method |-> method,
                      message |-> ToUpper(method) \o " should be used for specific resources, not for collections"]
                ELSE Nil
          [] OTHER -> Nil

RestMethodLoop(path, pathItem) ==
    RangeMap([method \in DOMAIN pathItem |->
        IF method \in {"parameters", "summary", "description"} THEN {<<>>}
        ELSE IF pathItem[method].t # "map" THEN {<<>>}
        ELSE LET issue == checkMethodPathConsistency(path, method)
             IN  IF issue # Nil THEN {<<issue>>} ELSE {<<>>}])

\* the body of the loop over the paths, for one path
RestPathBody(path, pathObj) ==
    IF pathObj.t # "map" THEN {<<>>} ELSE RestMethodLoop(path, pathObj.m)

\* the results Apply can return (one per visiting order of the maps)
SolaceRestRulesApply(spec) ==
    IF spec = Nil THEN {InvalidSpec}
    ELSE IF ~IsMapAt(spec.m, "paths") THEN {NoPaths}
    ELSE LET paths == spec.m["paths"].m
         IN  {SetResults(issues) : issues \in
                 RangeMap([path \in DOMAIN paths |-> RestPathBody(path, paths[path])])}

\* ------------------------------------- SolaceSingularUserResourcesRule
SlashUsersSlash == <<"/", "u", "s", "e", "r", "s", "/">>
SlashMeSlash == <<"/", "m", "e", "/">>

\* SingularUserBody skipping path items that are not mappings, as the other rules do
SingularUserBody_SkipsNonMap(path, pathObj) ==
    IF pathObj.t # "map" THEN {<<>>}
    ELSE IF Contains(path, SlashUsersSlash) /\ ~Contains(path, SlashMeSlash)
    THEN {<<[path |-> path,
             message |-> "User-specific resources should use /me/ instead of /users/{id}"]>>}
    ELSE {<<>>}

SingularUserBody(path, pathObj) ==
    IF Contains(path, SlashUsersSlash) /\ ~Contains(path, SlashMeSlash)
    THEN {<<[path |-> path,
             message |-> "User-specific resources should use /me/ instead of /users/{id}"]>>}
    ELSE {<<>>}

SolaceSingularUserResourcesRuleApply(spec) ==
    IF spec = Nil THEN {InvalidSpec}
    ELSE IF ~IsMapAt(spec.m, "paths") THEN {NoPaths}
    ELSE LET paths == spec.m["paths"].m
         IN  {SetResults(issues) : issues \in
                 RangeMap([path \in DOMAIN paths |-> SingularUserBody(path, paths[path])])}

\* --------------------------------------------- SolaceCustomActionsRule
SlashActionsSlash == <<"/", "a", "c", "t", "i", "o", "n", "s", "/">>

\* CustomActionsBody looking the method key up in any letter case
CustomActionsBody_AnyCase(path, pathObj) ==
    IF pathObj.t # "map" THEN {<<>>}
    ELSE IF Contains(path, SlashActionsSlash)
            /\ \A key \in DOMAIN pathObj.m : ToLower(key) # "post"
    THEN {<<[path |-> path, message |-> "Custom actions should use POST method"]>>}
    ELSE {<<>>}

CustomActionsBody(path, pathObj) ==
    IF pathObj.t # "map" THEN {<<>>}
    ELSE IF Contains(path, SlashActionsSlash) /\ "post" \notin DOMAIN pathObj.m
    THEN {<<[path |-> path, message |-> "Custom actions should use POST method"]>>}
    ELSE {<<>>}

SolaceCustomActionsRuleApply(spec) ==
    IF spec = Nil THEN {InvalidSpec}
    ELSE IF ~IsMapAt(spec.m, "paths") THEN {NoPaths}
    ELSE LET paths == spec.m["paths"].m
         IN  {SetResults(issues) : issues \in
                 RangeMap([path \in DOMAIN paths |-> CustomActionsBody(path, paths[path])])}

\* ------------------------------------------------------------ JSONRule
\* regexp.MatchString for the patterns the rule files of the model use
LowerLetters == {"a", "b", "c", "d", "e", "f", "g", "h", "i", "j", "k", "l", "m",
                 "n", "o", "p", "q", "r", "s", "t", "u", "v", "w", "x", "y", "z"}
UpperLetters == {"A", "B", "C", "D", "E", "F", "G", "H", "I", "J", "K", "L", "M",
                 "N", "O", "P", "Q", "R", "S", "T", "U", "V", "W", "X", "Y", "Z"}
Digits == {"0", "1", "2", "3", "4", "5", "6", "7", "8", "9"}

MatchString(pattern, s) ==
    CASE pattern = "^/api/" -> HasPrefix(s, <<"/", "a", "p", "i", "/">>)
      [] pattern = "^[a-z][a-zA-Z0-9]*$" ->
            /\ Len(s) >= 1
            /\ s[1] \in LowerLetters
            /\ \A i \in 2..Len(s) : s[i] \in LowerLetters \cup UpperLetters \cup Digits
      [] OTHER -> FALSE

\* case "path_pattern"
PathPatternIssues(paths, condition) ==
    RangeMap([path \in DOMAIN paths |->
        IF ~MatchString(condition.Pattern, path)
        THEN {<<[path |-> path, message |-> condition.Message]>>}
        ELSE {<<>>}])

\* case "method_check"
MethodCheckIssues(paths, condition) ==
    IF ~IsMapAt(paths, condition.Path) THEN {<<>>}
    ELSE IF ToLower(condition.Method) \notin DOMAIN paths[condition.Path].m
    THEN {<<[path |-> condition.Path, message |-> condition.Message]>>}
    ELSE {<<>>}

\* parameter_check flagging a path the specification does not have
ParameterCheckIssues_FlagsAbsent(paths, condition) ==
    IF ~IsMapAt(paths, condition.Path) \/ "parameters" \notin DOMAIN paths[condition.Path].m
    THEN {<<[path |-> condition.Path, message |-> condition.Message]>>}
    ELSE {<<>>}

\* case "parameter_check"
ParameterCheckIssues(paths, condition) ==
    IF ~IsMapAt(paths, condition.Path) THEN {<<>>}
    ELSE IF "parameters" \notin DOMAIN paths[condition.Path].m
    THEN {<<[path |-> condition.Path, message |-> condition.Message]>>}
    ELSE {<<>>}

\* the inner loop without its break: the last violation is the one kept
FirstBadSegment_Last(segments, pattern) ==
    LET bad == SelectSeq(segments, LAMBDA segment : segment # <<>> /\ ~MatchString(pattern, segment))
    IN  IF bad = <<>> THEN <<>> ELSE <<bad[Len(bad)]>>

\* the inner loop over the segments of one path: first violation, then break
RECURSIVE FirstBadSegment(_, _)
FirstBadSegment(segments, pattern) ==
    IF segments = <<>> THEN <<>>
    ELSE IF Head(segments) = <<>> THEN FirstBadSegment(Tail(segments), pattern)
    ELSE IF ~MatchString(pattern, Head(segments)) THEN <<Head(segments)>>
    ELSE FirstBadSegment(Tail(segments), pattern)

\* case "resource_naming"
ResourceNamingIssues(paths, condition) ==
    RangeMap([path \in DOMAIN paths |->
        LET bad == FirstBadSegment(Split(path), condition.Pattern)
        IN  IF bad # <<>>
            THEN {<<[path |-> path, segment |-> bad[1], message |-> condition.Message]>>}
            ELSE {<<>>}])

NoSchemaIssue(condition) ==
    [field |-> condition.Field, message |-> "No schema definitions found in API spec"]

\* the loop over the schemas in one visiting order: [found, issues] at loop exit
RECURSIVE ScanSchemas(_, _, _)
ScanSchemas(order, schemas, condition) ==
    IF order = <<>> THEN [found |-> FALSE, issues |-> <<>>]
    ELSE LET schemaName == Head(order)
             rest == ScanSchemas(Tail(order), schemas, condition)
         IN  IF schemas[schemaName].t # "map" THEN rest
             ELSE IF ~IsMapAt(schemas[schemaName].m, "properties") THEN rest
             ELSE LET properties == schemas[schemaName].m["properties"].m
                  IN  IF condition.Field \notin DOMAIN properties THEN rest
                      ELSE IF condition.Format = ""
                      THEN [found |-> TRUE, issues |-> <<>>]
                      ELSE IF properties[condition.Field].t # "map" THEN rest
                      ELSE IF \/ ~IsStrAt(properties[condition.Field].m, "format")
                              \/ properties[condition.Field].m["format"].v # condition.Format
                      THEN [found |-> TRUE,
                            issues |-> <<[schema |-> schemaName, field |-> condition.Field,
                                          message |-> condition.Message \o " (format should be "
                                                      \o condition.Format \o ")"]>>]
                      ELSE [found |-> TRUE, issues |-> <<>>]

\* schema_field going on to the field-not-found issue after the no-schema issue
SchemaFieldIssues_AlsoNotFound(spec, condition) ==
    IF ~IsMapAt(spec, "components") /\ ~IsMapAt(spec, "definitions")
    THEN {<<NoSchemaIssue(condition), [field |-> condition.Field, message |-> condition.Message]>>}
    ELSE {<<>>}

\* case "schema_field"
SchemaFieldIssues(spec, condition) ==
    LET scan(schemas) ==
            {LET r == ScanSchemas(order, schemas, condition)
             IN  IF ~r.found
                 THEN r.issues \o <<[field |-> condition.Field, message |-> condition.Message]>>
                 ELSE r.issues
             : order \in Perms(DOMAIN schemas)}
    IN  IF ~IsMapAt(spec, "components")
        THEN IF ~IsMapAt(spec, "definitions")
             THEN {<<NoSchemaIssue(condition)>>}
             ELSE scan(spec["definitions"].m)
        ELSE IF ~IsMapAt(spec["components"].m, "schemas")
             THEN {<<NoSchemaIssue(condition)>>}
             ELSE scan(spec["components"].m["schemas"].m)

ConditionIssues(spec, condition) ==
    CASE condition.Type = "path_pattern" -> PathPatternIssues(spec["paths"].m, condition)
      [] condition.Type = "method_check" -> MethodCheckIssues(spec["paths"].m, condition)
      [] condition.Type = "parameter_check" -> ParameterCheckIssues(spec["paths"].m, condition)
      [] condition.Type = "resource_naming" -> ResourceNamingIssues(spec["paths"].m, condition)
      [] condition.Type = "schema_field" -> SchemaFieldIssues(spec, condition)
      [] OTHER -> {<<>>}

\* for _, condition := range r.Conditions: the issue lists the loop can build
RECURSIVE ApplyConditions(_, _)
ApplyConditions(spec, conditions) ==
    IF conditions = <<>> THEN {<<>>}
    ELSE {a \o b : a \in ConditionIssues(spec, Head(conditions)),
                   b \in ApplyConditions(spec, Tail(conditions))}

Skipped == [status |-> "skipped", message |-> "Rule is disabled"]

\* Apply testing the specification before the enabled flag
JSONRuleApply_SpecFirst(r, spec) ==
    IF spec = Nil THEN {InvalidSpec}
    ELSE IF ~IsMapAt(spec.m, "paths") THEN {NoPaths}
    ELSE IF ~r.Enabled THEN {Skipped}
    ELSE {SetResults(issues) : issues \in ApplyConditions(spec.m, r.Conditions)}

JSONRuleApply(r, spec) ==
    IF ~r.Enabled THEN {Skipped}
    ELSE IF spec = Nil THEN {InvalidSpec}
    ELSE IF ~IsMapAt(spec.m, "paths") THEN {NoPaths}
    ELSE {SetResults(issues) : issues \in ApplyConditions(spec.m, r.Conditions)}

\* rule.Apply(spec) through the Rule interface: the (result, err) pairs it can
\* return; no implementation ever returns a non-nil error
RuleApply(rule, spec) ==
    LET results ==
            CASE rule.kind = "SolaceRestRules" -> SolaceRestRulesApply(spec)
              [] rule.kind = "SolaceSingularUserResourcesRule" ->
                    SolaceSingularUserResourcesRuleApply(spec)
              [] rule.kind = "SolaceCustomActionsRule" -> SolaceCustomActionsRuleApply(spec)
              [] rule.kind = "JSONRule" -> JSONRuleApply(rule, spec)
    IN  {[result |-> res, err |-> "nil"] : res \in results}

\* --------------------------------------------------- rule definition files
\* validate without the checks of the fields a condition type requires
validate_TypeOnly(r) ==
    /\ r.RuleName # ""
    /\ r.RuleDescription # ""
    /\ Len(r.Conditions) # 0
    /\ \A i \in 1..Len(r.Conditions) :
          /\ r.Conditions[i].Type \in {"path_pattern", "method_check", "parameter_check",
                                       "resource_naming", "schema_field"}
          /\ r.Conditions[i].Message # ""

\* (r *JSONRule) validate(): TRUE iff it returns nil; of the patterns the model
\* uses, regexp.Compile rejects only "("
validate(r) ==
    /\ r.RuleName # ""
    /\ r.RuleDescription # ""
    /\ Len(r.Conditions) # 0
    /\ \A i \in 1..Len(r.Conditions) :
          LET condition == r.Conditions[i]
          IN  /\ condition.Type # ""
              /\ condition.Message # ""
              /\ CASE condition.Type = "path_pattern" ->
                        condition.Pattern # "" /\ condition.Pattern # "("
                   [] condition.Type = "method_check" ->
                        condition.Path # <<>> /\ condition.Method # ""
                   [] condition.Type = "parameter_check" -> condition.Path # <<>>
                   [] condition.Type = "resource_naming" ->
                        condition.Pattern # "" /\ condition.Pattern # "("
                   [] condition.Type = "schema_field" -> condition.Field # ""
                   [] OTHER -> FALSE

\* a Condition as json.Unmarshal fills it: fields the JSON omits are ""
Condition(type, message) ==
    [Type |-> type, Pattern |-> "", Path |-> <<>>, Method |-> "", Field |-> "",
     Format |-> "", Message |-> message]

ApiPrefix == [Condition("path_pattern", "API paths must start with /api/")
                 EXCEPT !.Pattern = "^/api/"]
CamelCase == [Condition("resource_naming", "Resource names must be camelCase")
                 EXCEPT !.Pattern = "^[a-z][a-zA-Z0-9]*$"]
CreatedTime == [Condition("schema_field", "Resources must have a createdTime field")
                 EXCEPT !.Field = "createdTime", !.Format = "date-time"]
WidgetsGet == [Condition("method_check", "Widgets must be listable")
                 EXCEPT !.Path = <<"/", "w", "i", "d", "g", "e", "t", "s">>, !.Method = "GET"]
WidgetsParams == [Condition("parameter_check", "Widgets must declare parameters")
                 EXCEPT !.Path = <<"/", "w", "i", "d", "g", "e", "t", "s">>]

\* the JSON documents of the model's rule files; "enabled" is "true", "false" or
\* "absent" (the key is not in the document); a document that is not JSON at all
\* is BadJSON
BadJSON == [json |-> FALSE]
RuleDoc(name, enabled, conditions) ==
    [json |-> TRUE, name |-> name, description |-> "description of " \o name,
     enabled |-> enabled, conditions |-> conditions]

RuleDocs ==
    { RuleDoc("audit_fields", "true", <<CreatedTime>>),
      RuleDoc("audit_fields", "absent", <<ApiPrefix, CamelCase>>),
      RuleDoc("audit_fields_1", "true", <<WidgetsGet, WidgetsParams>>),
      RuleDoc("solace_rest_rules", "false", <<ApiPrefix>>),
      RuleDoc("naming", "true", <<>>),
      BadJSON }

\* the entries filepath.Walk can hand to the callback
DirEntries ==
    {[IsDir |-> TRUE, Json |-> FALSE, doc |-> BadJSON],
     [IsDir |-> FALSE, Json |-> FALSE, doc |-> BadJSON]}
    \cup {[IsDir |-> FALSE, Json |-> TRUE, doc |-> d] : d \in RuleDocs}

\* Unmarshal with enabled defaulting to true when the document omits it
Unmarshal_DefaultEnabled(doc, filePath) ==
    [kind |-> "JSONRule", RuleName |-> doc.name, RuleDescription |-> doc.description,
     Enabled |-> (doc.enabled # "false"), Conditions |-> doc.conditions,
     FilePath |-> filePath]

\* json.Unmarshal(data, &rule) and rule.FilePath = filePath
Unmarshal(doc, filePath) ==
    [kind |-> "JSONRule", RuleName |-> doc.name, RuleDescription |-> doc.description,
     Enabled |-> (doc.enabled = "true"), Conditions |-> doc.conditions,
     FilePath |-> filePath]

\* NewJSONRuleFromFile: [rule, err]
NewJSONRuleFromFile(doc, filePath) ==
    IF ~doc.json THEN [rule |-> Nil, err |-> "error parsing JSON rule"]
    ELSE LET rule == Unmarshal(doc, filePath)
         IN  IF ~validate(rule) THEN [rule |-> Nil, err |-> "invalid JSON rule"]
             ELSE [rule |-> rule, err |-> "nil"]

\* fmt.Sprintf("%s_%d", baseName, suffix)
SuffixedName(baseName, suffix) == baseName \o "_" \o ToString(suffix)

\* ResolveName trying only the first suffix
ResolveName_Once(rules, baseName, ruleName, suffix) ==
    IF ruleName \notin DOMAIN rules THEN ruleName ELSE SuffixedName(baseName, suffix)

\* the name-conflict loop: the first of baseName, baseName_1, baseName_2, ...
\* that is not a key of rules
RECURSIVE ResolveName(_, _, _, _)
ResolveName(rules, baseName, ruleName, suffix) ==
    IF ruleName \notin DOMAIN rules THEN ruleName
    ELSE ResolveName(rules, baseName, SuffixedName(baseName, suffix), suffix + 1)

\* rules[rule.RuleName] = rule, after the conflict loop has renamed the rule
AddRule(rules, rule) ==
    LET name == ResolveName(rules, rule.RuleName, rule.RuleName, 1)
    IN  (name :> [rule EXCEPT !.RuleName = name]) @@ rules

\* for name, rule := range jsonRules { v.rules[name] = rule }
RegisterAll(registry, jsonRules) == jsonRules @@ registry

BuiltInRules ==
    ("solace_rest_rules" :> [kind |-> "SolaceRestRules"])
    @@ ("solace_singular_user_resources" :> [kind |-> "SolaceSingularUserResourcesRule"])
    @@ ("solace_custom_actions" :> [kind |-> "SolaceCustomActionsRule"])

\* (Rule).Name()
Name(rule) ==
    CASE rule.kind = "SolaceRestRules" -> "solace_rest_rules"
      [] rule.kind = "SolaceSingularUserResourcesRule" -> "solace_singular_user_resources"
      [] rule.kind = "SolaceCustomActionsRule" -> "solace_custom_actions"
      [] rule.kind = "JSONRule" -> rule.RuleName

\* the name filepath.Walk visits i-th (it visits in lexical order)
FilePathOf(i) == "config/rules/" \o ToString(i) \o ".json"

\* the callback of filepath.Walk on one entry; acc = [rules, err] so far
WalkFn(acc, entry, filePath) ==
    IF entry.IsDir THEN acc
    ELSE IF ~entry.Json THEN acc
    ELSE LET loaded == NewJSONRuleFromFile(entry.doc, filePath)
         IN  IF loaded.err # "nil"
             THEN [rules |-> acc.rules,
                   err |-> "error loading rule from " \o filePath \o ": " \o loaded.err]
             ELSE [rules |-> AddRule(acc.rules, loaded.rule), err |-> "nil"]

\* filepath.Walk over the entries from the i-th on: it stops at the first error
RECURSIVE Walk(_, _, _)
Walk(dir, i, acc) ==
    IF i > Len(dir) \/ acc.err # "nil" THEN acc
    ELSE Walk(dir, i + 1, WalkFn(acc, dir[i], FilePathOf(i)))

\* LoadReturn handing back the rules loaded before the walk failed
LoadReturn_KeepsLoaded(acc) ==
    IF acc.err # "nil"
    THEN [rules |-> acc.rules, err |-> "error walking rules directory: " \o acc.err]
    ELSE acc

\* what LoadJSONRulesFromDir returns once the walk has ended with acc
LoadReturn(acc) ==
    IF acc.err # "nil"
    THEN [rules |-> <<>>, err |-> "error walking rules directory: " \o acc.err]
    ELSE acc

NoRules == [rules |-> <<>>, err |-> "nil"]

LoadJSONRulesFromDir(dirExists, dir) ==
    IF ~dirExists THEN NoRules ELSE LoadReturn(Walk(dir, 1, NoRules))

\* registerJSONRules: the registry afterwards
registerJSONRules(registry, loaded) ==
    IF loaded.err # "nil" THEN registry ELSE RegisterAll(registry, loaded.rules)

\* NewValidator: the registry of the constructed Validator
NewValidator(dirExists, dir) ==
    registerJSONRules(BuiltInRules, LoadJSONRulesFromDir(dirExists, dir))

\* ------------------------------------------------------------- Validator
\* yaml.Unmarshal on the specification texts of the model: [spec, err]; an
\* empty document leaves the map nil
WidgetsYAML == "paths: {'/widgets': {post: {}}, '/widgets/{id}': {get: {}, put: {}}}"
UsersYAML == "paths: {'/users/{id}': {post: {}}}"
SchemasYAML == "paths: {}\ncomponents: {schemas: {A: {properties: {createdTime: {format: date-time}}}, B: {properties: {createdTime: {format: date}}}}}"
InfoYAML == "info: {title: t}"
BadYAML == "paths: {"
ScalarPathsYAML == "paths: none"

PWidgets == <<"/", "w", "i", "d", "g", "e", "t", "s">>
PWidgetsId == PWidgets \o <<"/", "{", "i", "d", "}">>
PUsersId == <<"/", "u", "s", "e", "r", "s", "/", "{", "i", "d", "}">>

Property(format) == Map("createdTime" :> Map("format" :> Str(format)))
Schema(format) == Map("properties" :> Property(format))

\* yaml.Unmarshal on a block-style document, the style createOpenAPISpec
\* writes: one "key:", "key: scalar" or "- key: scalar" per line, nesting by
\* indentation. Scalars are plain, single-quoted or a flow mapping of one plain
\* key; none of the model's scalars is numeric or null.
Bool(b) == [t |-> "bool", v |-> b]
YamlError(message) == [v |-> Nil, err |-> "yaml: " \o message]
YamlValue(v) == [v |-> v, err |-> "nil"]

Char(s, i) == SubSeq(s, i, i)

\* the members of a set of integers in increasing order
RECURSIVE Ascending(_)
Ascending(S) ==
    IF S = {} THEN <<>>
    ELSE LET least == CHOOSE i \in S : \A j \in S : i <= j
         IN  <<least>> \o Ascending(S \ {least})

Lines(text) ==
    LET breaks == Ascending({i \in 1..Len(text) : Char(text, i) = "\n"})
        from(k) == IF k = 1 THEN 1 ELSE breaks[k - 1] + 1
        to(k) == IF k = Len(breaks) + 1 THEN Len(text) ELSE breaks[k] - 1
    IN  [k \in 1..(Len(breaks) + 1) |-> SubSeq(text, from(k), to(k))]

\* a line as the scanner sees it: its indentation, whether it opens a sequence
\* item, and the text that follows; a line of blanks has empty text
Line(raw) ==
    LET inked == {i \in 1..Len(raw) : Char(raw, i) # " "}
        indent == IF inked = {} THEN Len(raw) ELSE (CHOOSE i \in inked : \A j \in inked : i <= j) - 1
        rest == SubSeq(raw, indent + 1, Len(raw))
        dash == HasPrefix(rest, "- ")
    IN  [indent |-> indent, dash |-> dash,
         rest |-> IF dash THEN SubSeq(rest, 3, Len(rest)) ELSE rest]

Quoted(s) == Len(s) >= 2 /\ Char(s, 1) = "'" /\ Char(s, Len(s)) = "'"
FlowIndicators == {"{", "}", "[", "]", ","}

\* a scalar value: [v, err]
Scalar(raw) ==
    LET inner == SubSeq(raw, 2, Len(raw) - 1)
    IN  IF raw = "" THEN YamlValue(Nil)
        ELSE IF Quoted(raw) THEN YamlValue(Str(inner))
        ELSE IF Char(raw, 1) = "{"
        THEN IF Len(raw) >= 2 /\ Char(raw, Len(raw)) = "}"
                /\ \A i \in 1..Len(inner) : Char(inner, i) \notin FlowIndicators
             THEN YamlValue(IF inner = "" THEN EmptyMap ELSE Map(inner :> Nil))
             ELSE YamlError("did not find expected ',' or '}'")
        ELSE IF Char(raw, 1) \in FlowIndicators
        THEN YamlError("did not find expected node content")
        ELSE IF raw \in {"true", "false"} THEN YamlValue(Bool(raw = "true"))
        ELSE YamlValue(Str(raw))

\* the key and the raw value of a mapping line: [key, value, err]; a mapping
\* key has to decode into a Go string, which a flow collection never does
KeyValue(rest) ==
    LET colons == {i \in 1..Len(rest) :
                      Char(rest, i) = ":" /\ (i = Len(rest) \/ Char(rest, i + 1) = " ")}
        colon == CHOOSE i \in colons : \A j \in colons : i <= j
        rawKey == SubSeq(rest, 1, colon - 1)
    IN  IF colons = {} THEN [key |-> "", value |-> "", err |-> "yaml: could not find expected ':'"]
        ELSE IF colon = 1 THEN [key |-> "", value |-> "", err |-> "yaml: did not find expected key"]
        ELSE IF Char(rest, 1) \in FlowIndicators
        THEN [key |-> "", value |-> "", err |-> "yaml: invalid map key"]
        ELSE [key |-> IF Quoted(rawKey) THEN SubSeq(rawKey, 2, Len(rawKey) - 1) ELSE rawKey,
              value |-> SubSeq(rest, colon + 2, Len(rest)),
              err |-> "nil"]

\* the node a block of lines denotes: [v, err]; every entry of the block is
\* one line of the block's indentation together with the deeper lines below it
RECURSIVE ParseBlock(_)
ParseBlock(ls) ==
    LET n == ls[1].indent
        starts == {i \in 1..Len(ls) : ls[i].indent = n}
        order == Ascending(starts)
        last(k) == IF k = Len(order) THEN Len(ls) ELSE order[k + 1] - 1
        children(k) == SubSeq(ls, order[k] + 1, last(k))
        item(k) == ParseBlock(<<[ls[order[k]] EXCEPT !.dash = FALSE, !.indent = n + 2]>>
                              \o children(k))
        value(k, kv) ==
            IF kv.err # "nil" THEN [v |-> Nil, err |-> kv.err]
            ELSE IF kv.value # ""
            THEN IF children(k) # <<>>
                 THEN YamlError("mapping values are not allowed in this context")
                 ELSE Scalar(kv.value)
            ELSE IF children(k) = <<>> THEN YamlValue(Nil)
            ELSE ParseBlock(children(k))
        items == {<<k, item(k)>> : k \in 1..Len(order)}
        entries == {[key |-> KeyValue(ls[order[k]].rest).key,
                     node |-> value(k, KeyValue(ls[order[k]].rest))] : k \in 1..Len(order)}
    IN  IF \E i \in 1..Len(ls) : ls[i].indent < n
        THEN YamlError("did not find expected key")
        ELSE IF \E i, j \in starts : ls[i].dash # ls[j].dash
        THEN YamlError("did not find expected '-' indicator")
        ELSE IF ls[1].dash
        THEN IF \E it \in items : it[2].err # "nil"
             THEN [v |-> Nil, err |-> (CHOOSE it \in items : it[2].err # "nil")[2].err]
             ELSE YamlValue(List([k \in 1..Len(order) |-> (CHOOSE it \in items : it[1] = k)[2].v]))
        ELSE IF \E e \in entries : e.node.err # "nil"
        THEN [v |-> Nil, err |-> (CHOOSE e \in entries : e.node.err # "nil").node.err]
        ELSE IF Cardinality({e.key : e \in entries}) # Len(order)
        THEN YamlError("mapping key already defined")
        ELSE YamlValue(Map([key \in {e.key : e \in entries} |->
                               (CHOOSE e \in entries : e.key = key).node.v]))

\* the characters of a string, and the string of a sequence of characters
Chars(s) == [i \in 1..Len(s) |-> Char(s, i)]

RECURSIVE Join(_)
Join(chars) == IF chars = <<>> THEN "" ELSE Head(chars) \o Join(Tail(chars))

\* the model keeps the keys of a paths mapping as sequences of characters
PathKeyed(spec) ==
    IF ~IsMapAt(spec.m, "paths") THEN spec
    ELSE LET paths == spec.m["paths"].m
         IN  Map([k \in DOMAIN spec.m |->
                     IF k = "paths"
                     THEN Map([path \in {Chars(key) : key \in DOMAIN paths} |-> paths[Join(path)]])
                     ELSE spec.m[k]])

yamlUnmarshalBlock(text) ==
    LET lines == Lines(text)
        ls == SelectSeq([k \in 1..Len(lines) |-> Line(lines[k])], LAMBDA l : l.rest # "")
        node == ParseBlock(ls)
    IN  IF ls = <<>> THEN [spec |-> Nil, err |-> "nil"]
        ELSE IF node.err # "nil" THEN [spec |-> Nil, err |-> node.err]
        ELSE IF node.v.t # "map"
        THEN [spec |-> Nil, err |-> "yaml: unmarshal errors: cannot unmarshal into map[string]interface {}"]
        ELSE [spec |-> PathKeyed(node.v), err |-> "nil"]

yamlUnmarshal(text) ==
    CASE text = "" -> [spec |-> Nil, err |-> "nil"]
      [] text = WidgetsYAML ->
            [spec |-> Map("paths" :> Map((PWidgets :> Map("post" :> EmptyMap))
                          @@ (PWidgetsId :> Map(("get" :> EmptyMap) @@ ("put" :> EmptyMap))))),
             err |-> "nil"]
      [] text = UsersYAML ->
            [spec |-> Map("paths" :> Map(PUsersId :> Map("post" :> EmptyMap))), err |-> "nil"]
      [] text = SchemasYAML ->
            [spec |-> Map(("paths" :> EmptyMap)
                          @@ ("components" :> Map("schemas" :>
                                Map(("A" :> Schema("date-time")) @@ ("B" :> Schema("date")))))),
             err |-> "nil"]
      [] text = InfoYAML ->
            [spec |-> Map("info" :> Map("title" :> Str("t"))), err |-> "nil"]
      [] OTHER -> yamlUnmarshalBlock(text)

\* the files os.Stat finds: path -> content
FileSystem == ("widgets.yaml" :> WidgetsYAML)

parseAPISpec(apiSpec) ==
    LET specContent == IF apiSpec \in DOMAIN FileSystem THEN FileSystem[apiSpec] ELSE apiSpec
        parsed == yamlUnmarshal(specContent)
    IN  IF parsed.err # "nil"
        THEN [spec |-> Nil, err |-> "error parsing API spec: " \o parsed.err]
        ELSE parsed

\* rulesToApply as extracted from params["rules"]: the string elements, in order
RECURSIVE StringItems(_)
StringItems(items) ==
    IF items = <<>> THEN <<>>
    ELSE IF Head(items).t = "str" THEN <<Head(items).v>> \o StringItems(Tail(items))
    ELSE StringItems(Tail(items))

\* ExtractRules with the assertion to []string, which a decoded JSON list fails
ExtractRules_StringSlice(params) == <<>>

ExtractRules(params) ==
    IF "rules" \in DOMAIN params /\ params["rules"].t = "list"
    THEN StringItems(params["rules"].l)
    ELSE <<>>

NotFound(ruleName) == [status |-> "error", message |-> "rule not found: " \o ruleName]

\* the entries the loop body can store for one rule name
ResultsFor(registry, ruleName, spec) ==
    IF ruleName \notin DOMAIN registry THEN {NotFound(ruleName)}
    ELSE {IF applied.err # "nil"
          THEN [status |-> "error", message |-> "error applying rule: " \o applied.err]
          ELSE applied.result
          : applied \in RuleApply(registry[ruleName], spec)}

\* for _, ruleName := range rulesToApply: the results maps the loop can build; a
\* name listed twice is applied twice and the later entry replaces the earlier
RECURSIVE ApplyRules(_, _, _)
ApplyRules(registry, rulesToApply, spec) ==
    IF rulesToApply = <<>> THEN {<<>>}
    ELSE LET n == Len(rulesToApply)
         IN  {(rulesToApply[n] :> r) @@ results :
                 r \in ResultsFor(registry, rulesToApply[n], spec),
                 results \in ApplyRules(registry, SubSeq(rulesToApply, 1, n - 1), spec)}

\* ApplyAllRules without the fallback to every registered rule
ApplyAllRules_NoFallback(registry, spec) == {<<>>}

\* no rules requested: every registered name once, in the order range yields;
\* the names are distinct, so the map built is the same for every order
ApplyAllRules(registry, spec) ==
    {results \in [DOMAIN registry -> UNION {ResultsFor(registry, n, spec) : n \in DOMAIN registry}] :
        \A n \in DOMAIN registry : results[n] \in ResultsFor(registry, n, spec)}

\* Validate: the (value, err) pairs it can return
Validate(registry, params) ==
    IF ~IsStrAt(params, "api_spec")
    THEN {[value |-> Nil, err |-> "missing or invalid api_spec parameter"]}
    ELSE UNION {   \* parsed: the (spec, err) pair parseAPISpec returned
        IF parsed.err # "nil"
        THEN {[value |-> Nil, err |-> "error parsing API spec: " \o parsed.err]}
        ELSE LET rulesToApply == ExtractRules(params)
                 resultMaps == IF Len(rulesToApply) = 0
                               THEN ApplyAllRules(registry, parsed.spec)
                               ELSE ApplyRules(registry, rulesToApply, parsed.spec)
             IN  {[value |-> [results |-> results], err |-> "nil"] : results \in resultMaps}
        : parsed \in {parseAPISpec(params["api_spec"].v)}}

\* ------------------------------------------------------ URLPathValidator
RECURSIVE ParamsOf(_)
ParamsOf(segments) ==
    IF segments = <<>> THEN <<>>
    ELSE LET segment == Head(segments)
         IN  IF HasPrefix(segment, <<"{">>) /\ HasSuffix(segment, <<"}">>)
             THEN <<SubSeq(segment, 2, Len(segment) - 1)>> \o ParamsOf(Tail(segments))
             ELSE ParamsOf(Tail(segments))

\* extractPathParams taking every segment that opens a brace as a parameter
extractPathParams_OpenBrace(urlPath) ==
    LET segments == Split(urlPath)
        opened == SelectSeq(segments, LAMBDA segment : HasPrefix(segment, <<"{">>))
    IN  [i \in 1..Len(opened) |-> SubSeq(opened[i], 2, Len(opened[i]) - 1)]

extractPathParams(urlPath) == ParamsOf(Split(urlPath))

\* endsWithResource with the test the method-path rule uses
endsWithResource_AsRule(urlPath) ==
    Contains(urlPath, <<"/", "{">>) /\ HasSuffix(urlPath, <<"}">>)

endsWithResource(urlPath) ==
    LET segments == Split(urlPath)
    IN  IF Len(segments) = 0 THEN FALSE
        ELSE LET lastSegment == segments[Len(segments)]
             IN  HasPrefix(lastSegment, <<"{">>) /\ HasSuffix(lastSegment, <<"}">>)

determineHTTPMethods(ewr) ==
    IF ewr THEN <<"get">> \o <<"put", "patch", "delete">> ELSE <<"get">> \o <<"post">>

\* the path analysis ValidateURLPath computes from its three helpers
PathAnalysis(urlPath) ==
    LET pathParams == extractPathParams(urlPath)
        ewr == endsWithResource(urlPath)
        methods == determineHTTPMethods(ewr)
    IN  [path |-> urlPath, path_parameters |-> pathParams,
         ends_with_resource |-> ewr, appropriate_methods |-> methods]

\* createOpenAPISpec: the text of the minimal specification
RECURSIVE ParamsSection(_)
ParamsSection(pathParams) ==
    IF pathParams = <<>> THEN ""
    ELSE "\n        - name: " \o Join(Head(pathParams))
         \o "\n          in: path"
         \o "\n          required: true"
         \o "\n          schema:"
         \o "\n            type: string"
         \o ParamsSection(Tail(pathParams))

ParametersOf(method, paramsSection) ==
    IF paramsSection # "" /\ method # "post" THEN "parameters:" \o paramsSection ELSE ""

RECURSIVE MethodsSection(_, _)
MethodsSection(methods, paramsSection) ==
    IF methods = <<>> THEN ""
    ELSE LET method == Head(methods)
         IN  "\n    " \o method \o ":"
             \o "\n      summary: " \o ToUpper(method) \o " endpoint"
             \o "\n      description: Auto-generated " \o ToUpper(method) \o " endpoint for validation"
             \o "\n      " \o ParametersOf(method, paramsSection)
             \o "\n      responses:"
             \o "\n        '200':"
             \o "\n          description: OK"
             \o MethodsSection(Tail(methods), paramsSection)

createOpenAPISpec(urlPath, pathParams, methods) ==
    "openapi: 3.0.0"
    \o "\ninfo:"
    \o "\n  title: Auto-generated API for URL Path Validation"
    \o "\n  version: 1.0.0"
    \o "\npaths:"
    \o "\n  " \o Join(urlPath) \o ":" \o MethodsSection(methods, ParamsSection(pathParams))

\* ValidateURLPath asking Validate for the method-path rule only
URLPathValidator_ValidateURLPath_RestOnly(registry, urlPath) ==
    LET pathParams == extractPathParams(urlPath)
        ewr == endsWithResource(urlPath)
        methods == determineHTTPMethods(ewr)
        spec == createOpenAPISpec(urlPath, pathParams, methods)
        params == ("api_spec" :> Str(spec)) @@ ("rules" :> List(<<Str("solace_rest_rules")>>))
        analysisResults == [path_analysis |-> PathAnalysis(urlPath)]
    IN  {IF ret.err # "nil"
         THEN [value |-> Nil, err |-> "error validating URL path: " \o ret.err]
         ELSE [value |-> ret.value @@ analysisResults, err |-> "nil"] :
            ret \in Validate(registry, params)}

\* URLPathValidator.ValidateURLPath: the (value, err) pairs it can return; the
\* report's entries are copied over the map that holds path_analysis
URLPathValidator_ValidateURLPath(registry, urlPath) ==
    LET pathParams == extractPathParams(urlPath)
        ewr == endsWithResource(urlPath)
        methods == determineHTTPMethods(ewr)
        spec == createOpenAPISpec(urlPath, pathParams, methods)
        params == "api_spec" :> Str(spec)
        analysisResults == [path_analysis |-> [path |-> urlPath, path_parameters |-> pathParams,
                                               ends_with_resource |-> ewr,
                                               appropriate_methods |-> methods]]
    IN  {IF ret.err # "nil"
         THEN [value |-> Nil, err |-> "error validating URL path: " \o ret.err]
         ELSE [value |-> ret.value @@ analysisResults, err |-> "nil"] :
            ret \in Validate(registry, params)}

\* ValidateURLPath taking a missing or non-string url_path for the empty path
ValidateURLPath_ZeroValue(registry, params) ==
    URLPathValidator_ValidateURLPath(registry,
        IF IsStrAt(params, "url_path") THEN params["url_path"].v ELSE <<>>)

\* Validator.ValidateURLPath
ValidateURLPath(registry, params) ==
    IF ~IsStrAt(params, "url_path")
    THEN {[value |-> Nil, err |-> "missing or invalid url_path parameter"]}
    ELSE URLPathValidator_ValidateURLPath(registry, params["url_path"].v)

\* ==================================================================== state
VARIABLES
    pc,         \* where the engine is: "new", "stat", "walk", "register", "ready"
    dirExists,  \* whether config/rules exists when the engine starts
    dir,        \* the entries of config/rules the walk has visited, in order
    loading,    \* LoadJSONRulesFromDir's rules map and the walk's error
    rules,      \* Validator.rules, the registry
    calls,      \* the submissions of the current request: [op, params, ret] each
    specIn,     \* a parsed specification handed to a rule
    applied,    \* the rule applied to specIn and the result it returned
    urlPath,    \* a path handed to the URL path validator
    analysis,   \* the path analysis computed for urlPath
    goroutines, \* the calls in flight on the engine, one per request goroutine
    server      \* the keep-alive state of the server: mutex, lastPing, clock, goroutines

vars == <<pc, dirExists, dir, loading, rules, calls, specIn, applied, urlPath, analysis,
          goroutines, server>>

NotApplied == [kind |-> "none"]
NoAnalysis == [path |-> <<>>, done |-> FALSE]
NotStarted == [started |-> FALSE]

\* ----------------------------------------------------- engine construction
registerBuiltInRules(registry) == BuiltInRules @@ registry

InitLoad ==
    /\ pc = "new"
    /\ dirExists \in BOOLEAN
    /\ dir = <<>>
    /\ loading = NoRules
    /\ rules = <<>>
    /\ calls = <<>>
    /\ specIn = Nil
    /\ applied = NotApplied
    /\ urlPath = <<>>
    /\ analysis = NoAnalysis
    /\ goroutines = <<>>
    /\ server = NotStarted

RegisterBuiltInRules ==
    /\ pc = "new"
    /\ rules' = registerBuiltInRules(rules)
    /\ pc' = "stat"
    /\ UNCHANGED <<dirExists, dir, loading, calls, specIn, applied, urlPath, analysis, goroutines, server>>

\* os.Stat(dirPath): a missing directory is created and contributes no rule
StatDir ==
    /\ pc = "stat"
    /\ pc' = IF dirExists THEN "walk" ELSE "register"
    /\ UNCHANGED <<dirExists, dir, loading, rules, calls, specIn, applied, urlPath, analysis, goroutines, server>>

\* the walk visits its next entry
VisitEntry ==
    /\ pc = "walk"
    /\ Len(dir) < MaxFiles
    /\ \E entry \in DirEntries :
          /\ dir' = Append(dir, entry)
          /\ loading' = WalkFn(loading, entry, FilePathOf(Len(dir) + 1))
    /\ pc' = IF loading'.err # "nil" THEN "register" ELSE "walk"
    /\ UNCHANGED <<dirExists, rules, calls, specIn, applied, urlPath, analysis, goroutines, server>>

\* the walk has visited every entry
EndWalk ==
    /\ pc = "walk"
    /\ pc' = "register"
    /\ UNCHANGED <<dirExists, dir, loading, rules, calls, specIn, applied, urlPath, analysis, goroutines, server>>

RegisterJSONRules ==
    /\ pc = "register"
    /\ rules' = registerJSONRules(rules, LoadReturn(loading))
    /\ pc' = "ready"
    /\ UNCHANGED <<dirExists, dir, loading, calls, specIn, applied, urlPath, analysis, goroutines, server>>

NextLoad == RegisterBuiltInRules \/ StatDir \/ VisitEntry \/ EndWalk \/ RegisterJSONRules

SpecLoad == InitLoad /\ [][NextLoad]_vars

\* ------------------------------------------- one rule definition loaded
\* the shapes a condition of a rule file can have
ConditionShapes ==
    [Type : {"", "path_pattern", "method_check", "parameter_check", "resource_naming",
             "schema_field", "header_check"},
     Pattern : {"", "(", "^/api/"},
     Path : {<<>>, PWidgets},
     Method : {"", "GET"},
     Field : {"", "createdTime"},
     Format : {""},
     Message : {"", "Widgets must be listable"}]

\* rule definitions: every header over no or one sound condition, and a sound
\* header over every condition shape, alone or next to a sound condition
DefinitionDocs ==
    [json : {TRUE}, name : {"", "naming"}, description : {"", "description of naming"},
     enabled : {"true", "false", "absent"}, conditions : {<<>>, <<ApiPrefix>>}]
    \cup [json : {TRUE}, name : {"naming"}, description : {"description of naming"},
          enabled : {"true", "false"},
          conditions : UNION {{<<c>>, <<ApiPrefix, c>>, <<c, ApiPrefix>>} : c \in ConditionShapes}]

\* the walk visits the one rule file of the directory
VisitDefinition ==
    /\ pc = "walk"
    /\ dir = <<>>
    /\ \E doc \in DefinitionDocs :
          /\ dir' = <<[IsDir |-> FALSE, Json |-> TRUE, doc |-> doc]>>
          /\ loading' = WalkFn(loading, dir'[1], FilePathOf(1))
    /\ pc' = IF loading'.err # "nil" THEN "register" ELSE "walk"
    /\ UNCHANGED <<dirExists, rules, calls, specIn, applied, urlPath, analysis, goroutines, server>>

NextDefinition ==
    RegisterBuiltInRules \/ StatDir \/ VisitDefinition \/ EndWalk \/ RegisterJSONRules

SpecDefinition == InitLoad /\ [][NextDefinition]_vars

\* ------------------------------------------------------- serving requests
Entry(doc) == [IsDir |-> FALSE, Json |-> TRUE, doc |-> doc]

\* the rules directories the serving engine is constructed over
Directories ==
    { [exists |-> FALSE, entries |-> <<>>],
      [exists |-> TRUE, entries |-> <<Entry(RuleDoc("audit_fields", "true", <<CreatedTime>>))>>],
      [exists |-> TRUE,
       entries |-> <<Entry(RuleDoc("solace_rest_rules", "false", <<ApiPrefix>>)),
                     Entry(RuleDoc("audit_fields", "true", <<CreatedTime>>))>>],
      [exists |-> TRUE,
       entries |-> <<Entry(RuleDoc("audit_fields", "absent", <<ApiPrefix, CamelCase>>)),
                     Entry(RuleDoc("audit_fields", "true", <<CreatedTime>>)),
                     Entry(RuleDoc("audit_fields_1", "true", <<WidgetsGet, WidgetsParams>>))>>],
      [exists |-> TRUE,
       entries |-> <<Entry(RuleDoc("audit_fields", "true", <<CreatedTime>>)), Entry(BadJSON)>>] }

ApiSpecTexts ==
    {"", WidgetsYAML, UsersYAML, SchemasYAML, InfoYAML, ScalarPathsYAML, BadYAML, "widgets.yaml"}

RuleItems == {Str("audit_fields"), Str("solace_rest_rules"), Str("no_such_rule"), Num}

RuleLists == UNION {[1..n -> RuleItems] : n \in 0..MaxRuleList}

\* the params maps a caller submits
ParamsSet ==
    LET apiSpecs == {<<>>, "api_spec" :> Num} \cup {"api_spec" :> Str(t) : t \in ApiSpecTexts}
        ruleSets == {<<>>, "rules" :> Str("audit_fields")} \cup {"rules" :> List(l) : l \in RuleLists}
    IN  {a @@ r : a \in apiSpecs, r \in ruleSets}

Init ==
    /\ pc = "ready"
    /\ \E d \in Directories :
          /\ dirExists = d.exists
          /\ dir = d.entries
          /\ rules = NewValidator(d.exists, d.entries)
    /\ loading = NoRules
    /\ calls = <<>>
    /\ specIn = Nil
    /\ applied = NotApplied
    /\ urlPath = <<>>
    /\ analysis = NoAnalysis
    /\ goroutines = <<>>
    /\ server = NotStarted

\* a caller submits a request, or submits the request of the last call again
ValidateCall ==
    /\ pc = "ready"
    /\ Len(calls) < MaxCalls
    /\ \E params \in (IF calls = <<>> THEN ParamsSet ELSE {calls[1].params}) :
          /\ \E ret \in Validate(rules, params) :
                calls' = Append(calls, [op |-> "Validate", params |-> params, ret |-> ret])
    /\ UNCHANGED <<pc, dirExists, dir, loading, rules, specIn, applied, urlPath, analysis, goroutines, server>>

\* the caller drops the reports it received
Discard ==
    /\ calls # <<>>
    /\ calls' = <<>>
    /\ UNCHANGED <<pc, dirExists, dir, loading, rules, specIn, applied, urlPath, analysis, goroutines, server>>

Next == ValidateCall \/ Discard

Spec == Init /\ [][Next]_vars

\* ------------------------------------------ a rule applied to a specification
PUsersMe == <<"/", "u", "s", "e", "r", "s", "/", "m", "e", "/", "a">>
PActionsRun == <<"/", "a", "/", "a", "c", "t", "i", "o", "n", "s", "/", "r", "u", "n">>
PFileVersion == <<"/", "f", "/", "{", "i", "d", "}", "/", "v", "{", "n", "}">>
PBareId == <<"{", "i", "d", "}">>

SpecPathKeys == {PUsersId, PUsersMe, PActionsRun, PFileVersion, PBareId, PWidgets}

\* the values a path key can carry
PathItems ==
    { Nil,
      EmptyMap,
      Map("post" :> EmptyMap),
      Map("POST" :> EmptyMap),
      Map("GET" :> EmptyMap),
      Map(("get" :> EmptyMap) @@ ("put" :> EmptyMap)),
      Map(("parameters" :> List(<<>>)) @@ ("delete" :> EmptyMap) @@ ("patch" :> Nil)) }

PathsMaps ==
    UNION {[keys -> PathItems] : keys \in {k \in SUBSET SpecPathKeys : Cardinality(k) <= MaxSpecPaths}}

\* the values a schema name can carry: a schema whose createdTime property has
\* the format, another format, no format, or is not a mapping; a schema without
\* the property; and a value that is not a schema
SchemaItems ==
    { Schema("date-time"),
      Schema("date"),
      Map("properties" :> Map("createdTime" :> EmptyMap)),
      Map("properties" :> Map("createdTime" :> Str("string"))),
      Map("properties" :> EmptyMap),
      Nil }

SchemaNames == {"A", "B"}

SchemasMaps == UNION {[names -> SchemaItems] : names \in SUBSET SchemaNames}

\* the ways a specification carries, or does not carry, its schemas
ComponentsItems ==
    {<<>>, "components" :> EmptyMap, "components" :> Str("none")}
    \cup {"components" :> Map("schemas" :> Map(schemas)) : schemas \in SchemasMaps}

DefinitionsItems ==
    {<<>>, "definitions" :> Str("none"), "definitions" :> EmptyMap,
     "definitions" :> Map("A" :> Schema("date-time")),
     "definitions" :> Map("A" :> Schema("date"))}

SchemaSpecs ==
    {Map(("paths" :> EmptyMap) @@ components @@ definitions) :
        components \in ComponentsItems, definitions \in DefinitionsItems}

\* the parsed specifications handed to the rules
ParsedSpecs ==
    {Nil, yamlUnmarshal(InfoYAML).spec, yamlUnmarshal(SchemasYAML).spec, Map("paths" :> Str("none"))}
    \cup {Map("paths" :> Map(paths)) : paths \in PathsMaps}
    \cup SchemaSpecs

InitRules ==
    /\ pc = "ready"
    /\ dirExists = FALSE
    /\ dir = <<>>
    /\ loading = NoRules
    /\ rules = NewValidator(FALSE, <<>>)
    /\ calls = <<>>
    /\ specIn \in ParsedSpecs
    /\ applied = NotApplied
    /\ urlPath = <<>>
    /\ analysis = NoAnalysis
    /\ goroutines = <<>>
    /\ server = NotStarted

ApplyResult(kind, doc, result) == [kind |-> kind, doc |-> doc, result |-> result]

ApplySolaceRestRules ==
    /\ applied = NotApplied
    /\ \E result \in SolaceRestRulesApply(specIn) :
          applied' = ApplyResult("SolaceRestRules", BadJSON, result)
    /\ UNCHANGED <<pc, dirExists, dir, loading, rules, calls, specIn, urlPath, analysis, goroutines, server>>

ApplySolaceSingularUserResourcesRule ==
    /\ applied = NotApplied
    /\ \E result \in SolaceSingularUserResourcesRuleApply(specIn) :
          applied' = ApplyResult("SolaceSingularUserResourcesRule", BadJSON, result)
    /\ UNCHANGED <<pc, dirExists, dir, loading, rules, calls, specIn, urlPath, analysis, goroutines, server>>

ApplySolaceCustomActionsRule ==
    /\ applied = NotApplied
    /\ \E result \in SolaceCustomActionsRuleApply(specIn) :
          applied' = ApplyResult("SolaceCustomActionsRule", BadJSON, result)
    /\ UNCHANGED <<pc, dirExists, dir, loading, rules, calls, specIn, urlPath, analysis, goroutines, server>>

\* rule files of one condition each, and one that mixes the condition types
CreatedTimeAnyFormat == [CreatedTime EXCEPT !.Format = ""]
WidgetsGetLower == [WidgetsGet EXCEPT !.Method = "get"]

ConditionDocs ==
    {RuleDoc(c.Type, "true", <<c>>) :
        c \in {ApiPrefix, CamelCase, CreatedTime, CreatedTimeAnyFormat,
               WidgetsGet, WidgetsGetLower, WidgetsParams}}
    \cup {RuleDoc("widgets", "true", <<WidgetsGet, CamelCase, WidgetsParams>>),
          RuleDoc("audit", "true", <<CreatedTime, ApiPrefix>>)}

\* a rule loaded from one of the rule files
ApplyJSONRule ==
    /\ applied = NotApplied
    /\ \E doc \in RuleDocs \cup ConditionDocs :
          LET loaded == NewJSONRuleFromFile(doc, FilePathOf(1))
          IN  /\ loaded.err = "nil"
              /\ \E result \in JSONRuleApply(loaded.rule, specIn) :
                    applied' = ApplyResult("JSONRule", doc, result)
    /\ UNCHANGED <<pc, dirExists, dir, loading, rules, calls, specIn, urlPath, analysis, goroutines, server>>

NextRules ==
    \/ ApplySolaceRestRules
    \/ ApplySolaceSingularUserResourcesRule
    \/ ApplySolaceCustomActionsRule
    \/ ApplyJSONRule

SpecRules == InitRules /\ [][NextRules]_vars

\* ---------------------------------------------------- a URL path analysed
PathAlphabet == {"/", "{", "}", "a"}

PCloudAgents ==
    <<"/", "a", "p", "i", "/", "v", "0", "/", "a", "d", "m", "i", "n", "/",
      "c", "l", "o", "u", "d", "A", "g", "e", "n", "t", "s", "/",
      "{", "d", "a", "t", "a", "c", "e", "n", "t", "e", "r", "I", "d", "}", "/",
      "u", "p", "g", "r", "a", "d", "e", "s">>

PRepeated == <<"/", "{", "a", "}", "/", "a", "/", "{", "a", "}">>

ShortPaths == UNION {[1..n -> PathAlphabet] : n \in 0..MaxPathLen}

URLPaths ==
    ShortPaths \cup {SlashUsersSlash \o tail : tail \in {p \in ShortPaths : Len(p) < MaxPathLen}}
    \cup SpecPathKeys \cup {PCloudAgents, PWidgetsId, PRepeated}

\* the rules directories the path validator's engine is constructed over
PathDirectories ==
    {d \in Directories : ~d.exists \/ "audit_fields_1" \in DOMAIN NewValidator(d.exists, d.entries)}

InitPath ==
    /\ pc = "ready"
    /\ \E d \in PathDirectories :
          /\ dirExists = d.exists
          /\ dir = d.entries
          /\ rules = NewValidator(d.exists, d.entries)
    /\ loading = NoRules
    /\ calls = <<>>
    /\ specIn = Nil
    /\ applied = NotApplied
    /\ urlPath \in URLPaths
    /\ analysis = NoAnalysis
    /\ goroutines = <<>>
    /\ server = NotStarted

AnalysePath ==
    /\ ~analysis.done
    /\ analysis' = [PathAnalysis(urlPath) @@ [done |-> TRUE] EXCEPT !.path = urlPath]
    /\ UNCHANGED <<pc, dirExists, dir, loading, rules, calls, specIn, applied, urlPath, goroutines, server>>

\* the params maps a caller submits for urlPath
URLPathParams == {<<>>, "url_path" :> Num, "url_path" :> Str(urlPath)}

ValidateURLPathCall ==
    /\ pc = "ready"
    /\ calls = <<>>
    /\ \E params \in URLPathParams :
          \E ret \in ValidateURLPath(rules, params) :
             calls' = <<[op |-> "ValidateURLPath", params |-> params, ret |-> ret]>>
    /\ UNCHANGED <<pc, dirExists, dir, loading, rules, specIn, applied, urlPath, analysis, goroutines, server>>

NextPath == AnalysePath \/ ValidateURLPathCall

SpecPath == InitPath /\ [][NextPath]_vars

\* ------------------------------------------- both entry points of the engine
PBraceName == <<"/", "u", "s", "e", "r", "s", "/", "{", "{", "}">>

\* the paths a caller of the serving engine asks about
ServePaths == {<<>>, PUsersId, PWidgets, PCloudAgents, PBraceName}

InitServe ==
    /\ pc = "ready"
    /\ \E d \in Directories :
          /\ dirExists = d.exists
          /\ dir = d.entries
          /\ rules = NewValidator(d.exists, d.entries)
    /\ loading = NoRules
    /\ calls = <<>>
    /\ specIn = Nil
    /\ applied = NotApplied
    /\ urlPath \in ServePaths
    /\ analysis = NoAnalysis
    /\ goroutines = <<>>
    /\ server = NotStarted

NextServe == ValidateCall \/ ValidateURLPathCall \/ Discard

SpecServe == InitServe /\ [][NextServe]_vars

\* ------------------------------------------------- calls running concurrently
\* Every request is served on a goroutine of its own; the calls share the
\* Validator and nothing else. A call advances in steps, each of which reads
\* the registry as it is at that moment: "validate" (about to enter Validate),
\* "loop" (inside the loop that applies the rules), "done" (returned).
MaxGoroutines == 2   \* requests in flight at the same time

Idle == [op |-> "none", params |-> <<>>, at |-> "idle"]

\* (v *Validator) GetRules: the slices the range statement can build
GetRules(registry) == Perms(DOMAIN registry)

\* the requests the callers submit
ConcurrentRequests ==
    {[op |-> "Validate", params |-> p] :
        p \in {"rules" :> List(<<Str("audit_fields")>>),
               ("api_spec" :> Str(SchemasYAML))
                   @@ ("rules" :> List(<<Str("solace_rest_rules"), Str("audit_fields")>>))}}
    \cup {[op |-> "ValidateURLPath", params |-> "url_path" :> Str(SlashUsersSlash \o <<"a">>)],
          [op |-> "GetRules", params |-> <<>>]}

\* the engines the calls run on: built-ins only, and one whose directory holds
\* a disabled rule named like a built-in and an enabled rule
ConcurrentDirectories ==
    {d \in Directories :
        \/ ~d.exists
        \/ /\ Len(d.entries) = 2
           /\ DOMAIN NewValidator(TRUE, d.entries) = DOMAIN BuiltInRules \cup {"audit_fields"}}

InitConcurrent ==
    /\ pc = "ready"
    /\ \E d \in ConcurrentDirectories :
          /\ dirExists = d.exists
          /\ dir = d.entries
          /\ rules = NewValidator(d.exists, d.entries)
    /\ loading = NoRules
    /\ calls = <<>>
    /\ specIn = Nil
    /\ applied = NotApplied
    /\ urlPath = <<>>
    /\ analysis = NoAnalysis
    /\ goroutines = [g \in 1..MaxGoroutines |-> Idle]
    /\ server = NotStarted

\* what the caller of a call gets once Validate has returned ret: ValidateURLPath
\* wraps the error or merges the report into the path analysis
Returned(call, ret) ==
    IF call.op # "ValidateURLPath" THEN ret
    ELSE IF ret.err # "nil"
    THEN [value |-> Nil, err |-> "error validating URL path: " \o ret.err]
    ELSE [value |-> ret.value @@ [path_analysis |-> PathAnalysis(call.params["url_path"].v)],
          err |-> "nil"]

\* a request arrives and its goroutine starts
Call(g) ==
    /\ goroutines[g].at = "idle"
    /\ \E request \in ConcurrentRequests :
          goroutines' = [goroutines EXCEPT ![g] =
              [op |-> request.op, params |-> request.params,
               at |-> IF request.op = "Validate" THEN "validate" ELSE "start",
               inner |-> request.params]]
    /\ UNCHANGED <<pc, dirExists, dir, loading, rules, calls, specIn, applied, urlPath, analysis, server>>

\* ValidateURLPath up to its call of Validate
Synthesize(g) ==
    LET call == goroutines[g]
        path == call.params["url_path"].v
    IN  /\ call.op = "ValidateURLPath"
        /\ call.at = "start"
        /\ goroutines' = [goroutines EXCEPT ![g] =
              IF ~IsStrAt(call.params, "url_path")
              THEN [op |-> call.op, params |-> call.params, at |-> "done",
                    ret |-> [value |-> Nil, err |-> "missing or invalid url_path parameter"]]
              ELSE [call EXCEPT !.at = "validate",
                                !.inner = "api_spec" :> Str(createOpenAPISpec(path,
                                              extractPathParams(path),
                                              determineHTTPMethods(endsWithResource(path))))]]
        /\ UNCHANGED <<pc, dirExists, dir, loading, rules, calls, specIn, applied, urlPath, analysis, server>>

\* Validate up to its loop: the specification parsed and the names to apply
\* collected, from the request or, when it lists none, by ranging over the
\* registry; the order that range yields shows as the loop advances
ParseStep(g) ==
    LET call == goroutines[g]
        failed(message) ==
            [op |-> call.op, params |-> call.params, at |-> "done",
             ret |-> Returned(call, [value |-> Nil, err |-> message])]
        parsed == parseAPISpec(call.inner["api_spec"].v)
        rulesToApply == ExtractRules(call.inner)
    IN  /\ call.at = "validate"
        /\ goroutines' = [goroutines EXCEPT ![g] =
              IF ~IsStrAt(call.inner, "api_spec")
              THEN failed("missing or invalid api_spec parameter")
              ELSE IF parsed.err # "nil"
              THEN failed("error parsing API spec: " \o parsed.err)
              ELSE [op |-> call.op, params |-> call.params, at |-> "loop",
                    spec |-> parsed.spec, listed |-> rulesToApply,
                    ranged |-> IF Len(rulesToApply) = 0 THEN DOMAIN rules ELSE {},
                    results |-> <<>>]]
        /\ UNCHANGED <<pc, dirExists, dir, loading, rules, calls, specIn, applied, urlPath, analysis, server>>

\* results kept in one map that every call in its loop writes to
Store_Shared(running, g, ruleName, result) ==
    [h \in DOMAIN running |->
        IF running[h].at = "loop"
        THEN [running[h] EXCEPT !.results = (ruleName :> result) @@ @]
        ELSE running[h]]

\* results[ruleName] = ...: results is a map local to the call
Store(running, g, ruleName, result) ==
    [running EXCEPT ![g].results = (ruleName :> result) @@ @]

\* one iteration of the loop over rulesToApply
ApplyStep(g) ==
    LET call == goroutines[g]
    IN  /\ call.at = "loop"
        /\ \E ruleName \in (IF call.listed # <<>> THEN {Head(call.listed)} ELSE call.ranged) :
              \E result \in ResultsFor(rules, ruleName, call.spec) :
                 goroutines' = [Store(goroutines, g, ruleName, result) EXCEPT
                                   ![g].listed = IF call.listed # <<>> THEN Tail(call.listed) ELSE <<>>,
                                   ![g].ranged = call.ranged \ {ruleName}]
        /\ UNCHANGED <<pc, dirExists, dir, loading, rules, calls, specIn, applied, urlPath, analysis, server>>

\* the loop has ended: Validate returns its report
ReturnStep(g) ==
    LET call == goroutines[g]
    IN  /\ call.at = "loop"
        /\ call.listed = <<>>
        /\ call.ranged = {}
        /\ call.results # <<>>
        /\ goroutines' = [goroutines EXCEPT ![g] =
              [op |-> call.op, params |-> call.params, at |-> "done",
               ret |-> Returned(call, [value |-> [results |-> call.results], err |-> "nil"])]]
        /\ UNCHANGED <<pc, dirExists, dir, loading, rules, calls, specIn, applied, urlPath, analysis, server>>

GetRulesStep(g) ==
    /\ goroutines[g].op = "GetRules"
    /\ goroutines[g].at = "start"
    /\ \E ruleNames \in GetRules(rules) :
          goroutines' = [goroutines EXCEPT ![g] =
              [op |-> "GetRules", params |-> <<>>, at |-> "done", ret |-> ruleNames]]
    /\ UNCHANGED <<pc, dirExists, dir, loading, rules, calls, specIn, applied, urlPath, analysis, server>>

\* the response is written and the goroutine ends
Respond(g) ==
    /\ goroutines[g].at = "done"
    /\ goroutines' = [goroutines EXCEPT ![g] = Idle]
    /\ UNCHANGED <<pc, dirExists, dir, loading, rules, calls, specIn, applied, urlPath, analysis, server>>

NextConcurrent ==
    \E g \in 1..MaxGoroutines :
        \/ Call(g)
        \/ Synthesize(g)
        \/ ParseStep(g)
        \/ ApplyStep(g)
        \/ ReturnStep(g)
        \/ GetRulesStep(g)
        \/ Respond(g)

SpecConcurrent == InitConcurrent /\ [][NextConcurrent]_vars

\* ------------------------------------------------------ the server kept alive
\* Time is counted in seconds; it advances by one ticker period at a time,
\* while no goroutine is in the middle of the few statements it runs per wake-up.
MaxTicks == 12       \* ticker periods the clock runs for
MaxHandlers == 2     \* requests handled at the same time

TickerPeriod == 30       \* time.NewTicker(30 * time.Second)
KeepAlivePeriod == 300   \* 5 * time.Minute

Monitor == 0             \* the keep-alive goroutine; the handlers are 1..MaxHandlers

\* the HTTP requests that reach /mcp: a client's ping, a client's request with
\* another verb, and the request sendSelfPing posts, which has no body
ClientPing == [from |-> "client", verb |-> "POST", body |-> Map("method" :> Str("ping"))]
ClientGet == [from |-> "client", verb |-> "GET", body |-> Nil]
SelfPing == [from |-> "self", verb |-> "POST", body |-> Nil]

NoRequest == [from |-> "none", verb |-> "", body |-> Nil]
IdleHandler == [pc |-> "idle", request |-> NoRequest]

\* NewServer: lastPing is the time of construction
NewServer(keepAlive) ==
    [started |-> FALSE, keepAlive |-> keepAlive, mu |-> {}, lastPing |-> 0, now |-> 0,
     monitor |-> [pc |-> "off", elapsed |-> 0],
     handlers |-> [h \in 1..MaxHandlers |-> IdleHandler],
     selfPing |-> "none", logged |-> <<>>]

InitKeepAlive ==
    /\ pc = "ready"
    /\ dirExists = FALSE
    /\ dir = <<>>
    /\ loading = NoRules
    /\ rules = NewValidator(FALSE, <<>>)
    /\ calls = <<>>
    /\ specIn = Nil
    /\ applied = NotApplied
    /\ urlPath = <<>>
    /\ analysis = NoAnalysis
    /\ goroutines = <<>>
    /\ \E keepAlive \in BOOLEAN : server = NewServer(keepAlive)

\* a mutex that lets every goroutine in
MutexFree_Always(mu) == TRUE

\* s.mu.Lock() returns only when no goroutine holds the mutex
MutexFree(mu) == mu = {}

\* json.NewDecoder(r.Body).Decode(&request): TRUE iff it returns an error; a
\* request without a body decodes to io.EOF
DecodeFails(request) == request.body = Nil

\* method, ok := request["method"].(string); ok && method == "ping"
IsPing(request) ==
    request.body.t = "map" /\ IsStrAt(request.body.m, "method")
    /\ request.body.m["method"].v = "ping"

Start ==
    /\ ~server.started
    /\ server' = [server EXCEPT !.started = TRUE,
                                 !.monitor.pc = IF server.keepAlive THEN "sleep" ELSE "off"]
    /\ UNCHANGED <<pc, dirExists, dir, loading, rules, calls, specIn, applied, urlPath, analysis, goroutines>>

\* a ticker period passes; <-ticker.C wakes the monitor
Tick ==
    /\ server.started
    /\ server.monitor.pc \in {"sleep", "off"}
    /\ server.now + TickerPeriod <= MaxTicks * TickerPeriod
    /\ server' = [server EXCEPT !.now = @ + TickerPeriod,
                                 !.monitor.pc = IF @ = "sleep" THEN "lock" ELSE @]
    /\ UNCHANGED <<pc, dirExists, dir, loading, rules, calls, specIn, applied, urlPath, analysis, goroutines>>

\* keepAliveMonitor: s.mu.Lock()
MonitorLock ==
    /\ server.monitor.pc = "lock"
    /\ MutexFree(server.mu)
    /\ server' = [server EXCEPT !.mu = @ \cup {Monitor}, !.monitor.pc = "locked"]
    /\ UNCHANGED <<pc, dirExists, dir, loading, rules, calls, specIn, applied, urlPath, analysis, goroutines>>

\* elapsed := time.Since(s.lastPing)
MonitorRead ==
    /\ server.monitor.pc = "locked"
    /\ server' = [server EXCEPT !.monitor = [pc |-> "read", elapsed |-> server.now - server.lastPing]]
    /\ UNCHANGED <<pc, dirExists, dir, loading, rules, calls, specIn, applied, urlPath, analysis, goroutines>>

\* s.mu.Unlock()
MonitorUnlock ==
    /\ server.monitor.pc = "read"
    /\ server' = [server EXCEPT !.mu = @ \ {Monitor}, !.monitor.pc = "decide"]
    /\ UNCHANGED <<pc, dirExists, dir, loading, rules, calls, specIn, applied, urlPath, analysis, goroutines>>

\* if elapsed > 5*time.Minute { s.sendSelfPing() }: the request is posted and
\* the monitor waits for the answer
MonitorDecide ==
    /\ server.monitor.pc = "decide"
    /\ server' = IF server.monitor.elapsed > KeepAlivePeriod
                  THEN [server EXCEPT !.monitor.pc = "post", !.selfPing = "sent"]
                  ELSE [server EXCEPT !.monitor.pc = "sleep"]
    /\ UNCHANGED <<pc, dirExists, dir, loading, rules, calls, specIn, applied, urlPath, analysis, goroutines>>

\* http.Post returns: with an error when the request did not reach the server,
\* with the response, whatever its status, otherwise; sendSelfPing then logs
\* "Self-ping sent successfully", and logged keeps the time of that line
SendSelfPingReturns ==
    /\ server.monitor.pc = "post"
    /\ server.selfPing \in {"sent", "answered"}
    /\ server' = [server EXCEPT !.monitor.pc = "sleep", !.selfPing = "none",
                                 !.logged = IF server.selfPing = "answered"
                                            THEN <<server.now>> ELSE @]
    /\ UNCHANGED <<pc, dirExists, dir, loading, rules, calls, specIn, applied, urlPath, analysis, goroutines>>

\* a request reaches /mcp and is given a goroutine
Receive(h) ==
    /\ server.started
    /\ server.handlers[h].pc = "idle"
    /\ \E request \in {ClientPing, ClientGet} \cup (IF server.selfPing = "sent" THEN {SelfPing} ELSE {}) :
          server' = [server EXCEPT !.handlers[h] = [pc |-> "handleMCP", request |-> request],
                                   !.selfPing = IF request.from = "self" THEN "delivered" ELSE @]
    /\ UNCHANGED <<pc, dirExists, dir, loading, rules, calls, specIn, applied, urlPath, analysis, goroutines>>

\* handleMCP up to handlePing: a request that is not a POST, or does not
\* decode, is answered with an error; a request that is not a ping is
\* answered by processRequest, which does not touch lastPing
HandleMCP(h) ==
    LET request == server.handlers[h].request
        answered == [server EXCEPT !.handlers[h] = IdleHandler,
                                   !.selfPing = IF request.from = "self" THEN "answered" ELSE @]
    IN  /\ server.handlers[h].pc = "handleMCP"
        /\ server' = IF request.verb # "POST" THEN answered
                      ELSE IF DecodeFails(request) THEN answered
                      ELSE IF IsPing(request)
                      THEN [server EXCEPT !.handlers[h].pc = "handlePing"]
                      ELSE answered
        /\ UNCHANGED <<pc, dirExists, dir, loading, rules, calls, specIn, applied, urlPath, analysis, goroutines>>

\* handlePing: s.mu.Lock()
PingLock(h) ==
    /\ server.handlers[h].pc = "handlePing"
    /\ MutexFree(server.mu)
    /\ server' = [server EXCEPT !.mu = @ \cup {h}, !.handlers[h].pc = "locked"]
    /\ UNCHANGED <<pc, dirExists, dir, loading, rules, calls, specIn, applied, urlPath, analysis, goroutines>>

\* s.lastPing = time.Now()
PingWrite(h) ==
    /\ server.handlers[h].pc = "locked"
    /\ server' = [server EXCEPT !.lastPing = server.now, !.handlers[h].pc = "written"]
    /\ UNCHANGED <<pc, dirExists, dir, loading, rules, calls, specIn, applied, urlPath, analysis, goroutines>>

\* s.mu.Unlock() and the pong response
PingUnlock(h) ==
    /\ server.handlers[h].pc = "written"
    /\ server' = [server EXCEPT !.mu = @ \ {h}, !.handlers[h] = IdleHandler,
                                 !.selfPing = IF server.handlers[h].request.from = "self"
                                              THEN "answered" ELSE @]
    /\ UNCHANGED <<pc, dirExists, dir, loading, rules, calls, specIn, applied, urlPath, analysis, goroutines>>

NextKeepAlive ==
    \/ Start
    \/ Tick
    \/ MonitorLock
    \/ MonitorRead
    \/ MonitorUnlock
    \/ MonitorDecide
    \/ SendSelfPingReturns
    \/ \E h \in 1..MaxHandlers :
          \/ Receive(h)
          \/ HandleMCP(h)
          \/ PingLock(h)
          \/ PingWrite(h)
          \/ PingUnlock(h)

SpecKeepAlive == InitKeepAlive /\ [][NextKeepAlive]_vars

\* ==================================================================== claims
Range(seq) == {seq[i] : i \in 1..Len(seq)}

ParseableTexts == ApiSpecTexts \ {BadYAML}

\* the call parsed its api_spec: a string whose text is a YAML document
Parseable(params) == IsStrAt(params, "api_spec") /\ params["api_spec"].v \in ParseableTexts

\* the parsed specification of a parseable call
SpecOf(params) == parseAPISpec(params["api_spec"].v).spec

\* the rule names the caller listed (absent list: none)
RequestedNames(params) ==
    IF "rules" \in DOMAIN params /\ params["rules"].t = "list"
    THEN {item.v : item \in {i \in Range(params["rules"].l) : i.t = "str"}}
    ELSE {}

\* the caller passed a list of rule names, or no list at all
NamesOnly(params) ==
    "rules" \in DOMAIN params =>
        params["rules"].t = "list" /\ \A item \in Range(params["rules"].l) : item.t = "str"

IssuesOf(result) == IF "issues" \in DOMAIN result THEN result.issues ELSE <<>>

\* C1: Validate(S, [r]) for a parseable S and an unregistered name r returns no
\* request-level error and a results map with the single entry r, whose status is
\* "error" and whose message is "rule not found: r".
C1_UnknownRule(params) ==
    /\ Parseable(params)
    /\ "rules" \in DOMAIN params
    /\ params["rules"].t = "list"
    /\ Len(params["rules"].l) = 1
    /\ params["rules"].l[1].t = "str"
    /\ params["rules"].l[1].v \notin DOMAIN rules

C1_UnknownRuleIsReported ==
    \A i \in 1..Len(calls) :
        C1_UnknownRule(calls[i].params) =>
            LET r == calls[i].params["rules"].l[1].v
                ret == calls[i].ret
            IN  /\ ret.err = "nil"
                /\ DOMAIN ret.value.results = {r}
                /\ DOMAIN ret.value.results[r] = {"status", "message"}
                /\ ret.value.results[r].status = "error"
                /\ ret.value.results[r].message = "rule not found: " \o r

C1_Witness ==
    /\ Len(calls) >= 1
    /\ C1_UnknownRule(calls[1].params)
    /\ calls[1].params["api_spec"].v = WidgetsYAML
    /\ calls[1].params["rules"].l[1].v = "no_such_rule"
    /\ calls[1].ret.err = "nil"

\* C2: for a parseable spec and a list of rule names, the keys of the results map
\* are the distinct requested names when there are any and every registered name
\* when the list is empty or absent; an unregistered name gets a "rule not found"
\* error entry and every registered one gets a result of its own Apply.
C2_EveryRequestedRuleReported ==
    \A i \in 1..Len(calls) :
        LET params == calls[i].params
            ret == calls[i].ret
            names == RequestedNames(params)
        IN  (Parseable(params) /\ NamesOnly(params)) =>
                /\ ret.err = "nil"
                /\ DOMAIN ret.value.results = IF names # {} THEN names ELSE DOMAIN rules
                /\ \A n \in DOMAIN ret.value.results :
                      IF n \notin DOMAIN rules
                      THEN /\ ret.value.results[n].status = "error"
                           /\ ret.value.results[n].message = "rule not found: " \o n
                      ELSE ret.value.results[n] \in
                              {a.result : a \in RuleApply(rules[n], SpecOf(params))}

C2_Witness ==
    /\ Len(calls) >= 1
    /\ Parseable(calls[1].params)
    /\ "rules" \in DOMAIN calls[1].params
    /\ calls[1].params["rules"] = List(<<Str("no_such_rule"), Str("solace_rest_rules")>>)
    /\ calls[1].params["api_spec"].v = UsersYAML
    /\ calls[1].ret.value.results["no_such_rule"].status = "error"
    /\ calls[1].ret.value.results["solace_rest_rules"].status = "failed"

C2_WitnessAllRules ==
    /\ Len(calls) >= 1
    /\ Parseable(calls[1].params)
    /\ "rules" \notin DOMAIN calls[1].params
    /\ Cardinality(DOMAIN calls[1].ret.value.results) = 6

\* two returns of Validate carry the same report content: the same rule names,
\* the same status per rule and the same set of issues per rule
SameContent(ret1, ret2) ==
    /\ ret1.err = ret2.err
    /\ ret1.err = "nil" =>
          /\ DOMAIN ret1.value.results = DOMAIN ret2.value.results
          /\ \A n \in DOMAIN ret1.value.results :
                /\ ret1.value.results[n].status = ret2.value.results[n].status
                /\ Range(IssuesOf(ret1.value.results[n])) = Range(IssuesOf(ret2.value.results[n]))

\* C3: calling Validate twice on the same engine with identical spec text and
\* identical rule subset yields the same report content.
C3_Idempotent ==
    \A i, j \in 1..Len(calls) :
        calls[i].params = calls[j].params => SameContent(calls[i].ret, calls[j].ret)

\* C4: after construction each built-in name is bound to its built-in rule and
\* the registry holds 3 + (number of loaded declarative rules) entries.
C4_BuiltInsNeverOverwritten ==
    pc = "ready" =>
        /\ \A name \in DOMAIN BuiltInRules :
              name \in DOMAIN rules /\ rules[name] = BuiltInRules[name]
        /\ Cardinality(DOMAIN rules) = 3 + Cardinality(DOMAIN LoadReturn(loading).rules)

\* a directory entry that is a rule file passing load validation
ValidRuleFile(entry) ==
    /\ ~entry.IsDir
    /\ entry.Json
    /\ entry.doc.json
    /\ validate(Unmarshal(entry.doc, ""))

RuleFiles == {i \in 1..Len(dir) : ValidRuleFile(dir[i])}

\* the key the rule of the i-th visited file is stored under
KeyOf(i) == CHOOSE k \in DOMAIN loading.rules : loading.rules[k].FilePath = FilePathOf(i)

\* C5: loading n valid rule files never fails because of a collision and yields n
\* rules under n distinct keys; a rule keeps its declared name when no earlier
\* file holds that key and otherwise gets <name>_k for the first k whose key is
\* free; the key a file got never changes; every rule's Name() is its key.
C5_RenamedNeverDropped ==
    /\ (\A i \in 1..Len(dir) : dir[i].IsDir \/ ~dir[i].Json \/ ValidRuleFile(dir[i]))
          => loading.err = "nil"
    /\ loading.err = "nil" =>
          /\ Cardinality(DOMAIN loading.rules) = Cardinality(RuleFiles)
          /\ \A i \in RuleFiles :
                \E k \in DOMAIN loading.rules : loading.rules[k].FilePath = FilePathOf(i)
          /\ \A k \in DOMAIN loading.rules : Name(loading.rules[k]) = k
          /\ \A i \in RuleFiles :
                LET declared == dir[i].doc.name
                    earlier == {KeyOf(j) : j \in {x \in RuleFiles : x < i}}
                IN  IF declared \notin earlier
                    THEN KeyOf(i) = declared
                    ELSE \E k \in 1..Len(dir) :
                            /\ KeyOf(i) = declared \o "_" \o ToString(k)
                            /\ \A m \in 1..(k - 1) :
                                  (declared \o "_" \o ToString(m)) \in earlier

C5_Witness ==
    /\ loading.err = "nil"
    /\ Len(dir) = 3
    /\ DOMAIN loading.rules = {"audit_fields", "audit_fields_1", "audit_fields_1_1"}
    /\ dir[3].doc.name = "audit_fields_1"

\* C6: a declarative rule whose enabled flag is false, or absent from its JSON,
\* returns status "skipped" with no issues for every spec, a nil spec and a spec
\* without paths included.
C6_DisabledRuleSkipped ==
    (applied.kind = "JSONRule" /\ applied.doc.enabled # "true") =>
        /\ applied.result.status = "skipped"
        /\ "issues" \notin DOMAIN applied.result

C6_Witness ==
    /\ applied.kind = "JSONRule"
    /\ applied.doc.enabled = "absent"
    /\ specIn = Nil
    /\ applied.result.status = "skipped"

C6_WitnessNoPaths ==
    /\ applied.kind = "JSONRule"
    /\ applied.doc.enabled = "false"
    /\ specIn # Nil
    /\ "paths" \notin DOMAIN specIn.m
    /\ applied.result.status = "skipped"

\* the path's last '/'-segment starts with '{' and ends with '}'
LastSegmentIsParam(path) ==
    LET slashes == {i \in 1..Len(path) : path[i] = "/"}
        k == IF slashes = {} THEN 0 ELSE CHOOSE i \in slashes : \A j \in slashes : j <= i
    IN  /\ k < Len(path)
        /\ path[k + 1] = "{"
        /\ path[Len(path)] = "}"

HasPaths(spec) == spec # Nil /\ IsMapAt(spec.m, "paths")

\* the operations of a path item: its keys other than parameters, summary and
\* description that carry a mapping
Operations(pathObj) ==
    IF pathObj.t # "map" THEN {}
    ELSE {key \in DOMAIN pathObj.m :
             key \notin {"parameters", "summary", "description"} /\ pathObj.m[key].t = "map"}

\* the (path, method) pairs the method-path convention rejects
RejectedPairs(paths) ==
    {pair \in UNION {{<<p, ToLower(key)>> : key \in Operations(paths[p])} : p \in DOMAIN paths} :
        \/ pair[2] = "post" /\ LastSegmentIsParam(pair[1])
        \/ pair[2] \in {"put", "patch", "delete"} /\ ~LastSegmentIsParam(pair[1])}

\* C7: solace_rest_rules emits exactly one issue, carrying path and lower-cased
\* method, for each rejected (path, method) pair and none for any other pair; its
\* status is "failed" iff it emitted an issue.
C7_MethodPathConsistency ==
    (applied.kind = "SolaceRestRules" /\ HasPaths(specIn)) =>
        LET issues == IssuesOf(applied.result)
            rejected == RejectedPairs(specIn.m["paths"].m)
        IN  /\ Len(issues) = Cardinality(rejected)
            /\ {<<issue.path, issue.method>> : issue \in Range(issues)} = rejected
            /\ applied.result.status = "failed" <=> Len(issues) >= 1

\* C8: solace_singular_user_resources emits exactly one issue for each path key
\* containing "/users/" and not "/me/", and none for any other path key, whatever
\* the path carries.
C8_SingularUserResources ==
    (applied.kind = "SolaceSingularUserResourcesRule" /\ HasPaths(specIn)) =>
        LET issues == IssuesOf(applied.result)
            flagged == {p \in DOMAIN specIn.m["paths"].m :
                           Contains(p, SlashUsersSlash) /\ ~Contains(p, SlashMeSlash)}
        IN  /\ Len(issues) = Cardinality(flagged)
            /\ {issue.path : issue \in Range(issues)} = flagged

C8_Witness ==
    /\ applied.kind = "SolaceSingularUserResourcesRule"
    /\ HasPaths(specIn)
    /\ DOMAIN specIn.m["paths"].m = {PUsersId, PUsersMe}
    /\ specIn.m["paths"].m[PUsersId] = Nil
    /\ applied.result.status = "failed"
    /\ Len(applied.result.issues) = 1

\* C9 as claimed: solace_custom_actions emits exactly one issue for each path key
\* containing "/actions/" whose path item has no post operation, whatever the
\* shape of the path item, and none for any other path.
C9_CustomActionsAnyShape ==
    (applied.kind = "SolaceCustomActionsRule" /\ HasPaths(specIn)) =>
        LET issues == IssuesOf(applied.result)
            paths == specIn.m["paths"].m
            flagged == {p \in DOMAIN paths :
                           /\ Contains(p, SlashActionsSlash)
                           /\ ~(paths[p].t = "map" /\ "post" \in DOMAIN paths[p].m)}
        IN  /\ Len(issues) = Cardinality(flagged)
            /\ {issue.path : issue \in Range(issues)} = flagged

\* C9 as amended: one issue for each path key containing "/actions/" whose path
\* item is a mapping without the key "post" (a key in another letter case is not
\* the post key); none for any other path, a path whose item is no mapping included.
C9_CustomActionsMappingOnly ==
    (applied.kind = "SolaceCustomActionsRule" /\ HasPaths(specIn)) =>
        LET issues == IssuesOf(applied.result)
            paths == specIn.m["paths"].m
            flagged == {p \in DOMAIN paths :
                           /\ Contains(p, SlashActionsSlash)
                           /\ paths[p].t = "map"
                           /\ "post" \notin DOMAIN paths[p].m}
        IN  /\ Len(issues) = Cardinality(flagged)
            /\ {issue.path : issue \in Range(issues)} = flagged

C9_Witness ==
    /\ applied.kind = "SolaceCustomActionsRule"
    /\ HasPaths(specIn)
    /\ PActionsRun \in DOMAIN specIn.m["paths"].m
    /\ specIn.m["paths"].m[PActionsRun] = Map("POST" :> EmptyMap)
    /\ applied.result.status = "failed"

C9_WitnessNonMapping ==
    /\ applied.kind = "SolaceCustomActionsRule"
    /\ HasPaths(specIn)
    /\ DOMAIN specIn.m["paths"].m = {PActionsRun}
    /\ specIn.m["paths"].m[PActionsRun] = Nil
    /\ applied.result.status = "passed"

\* C10: ends_with_resource is true iff the path's final '/'-segment starts with
\* '{' and ends with '}'; appropriate_methods is [get, put, patch, delete] then
\* and [get, post] otherwise, so get is always there and post iff none of put,
\* patch, delete is.
C10_MethodsFollowPathShape ==
    analysis.done =>
        LET methods == Range(analysis.appropriate_methods)
        IN  /\ analysis.ends_with_resource <=> LastSegmentIsParam(urlPath)
            /\ analysis.appropriate_methods =
                  IF LastSegmentIsParam(urlPath)
                  THEN <<"get", "put", "patch", "delete">>
                  ELSE <<"get", "post">>
            /\ "get" \in methods
            /\ "post" \in methods <=> methods \cap {"put", "patch", "delete"} = {}

C10_Witness ==
    /\ analysis.done
    /\ urlPath = PCloudAgents
    /\ ~analysis.ends_with_resource
    /\ analysis.appropriate_methods = <<"get", "post">>

C10_WitnessEmptyPath ==
    /\ analysis.done
    /\ urlPath = <<>>
    /\ ~analysis.ends_with_resource

\* the brace-delimited segments of a path, as (first, last) positions: a maximal
\* run without "/" that opens with "{" and closes with "}"
BracedSegments(path) ==
    {b \in (1..Len(path)) \X (1..Len(path)) :
        /\ b[1] < b[2]
        /\ path[b[1]] = "{" /\ path[b[2]] = "}"
        /\ \A k \in b[1]..b[2] : path[k] # "/"
        /\ (b[1] = 1 \/ path[b[1] - 1] = "/")
        /\ (b[2] = Len(path) \/ path[b[2] + 1] = "/")}

\* C11: for every path, path_parameters lists the inner names of exactly the
\* '/'-segments that start with '{' and end with '}', from left to right with
\* repeated names kept; its length is the number of such segments, zero when
\* the path (the empty path included) has none
C11_PathParameters ==
    analysis.done =>
        LET braced == BracedSegments(urlPath)
            params == analysis.path_parameters
        IN  /\ Len(params) = Cardinality(braced)
            /\ \A b \in braced :
                   params[1 + Cardinality({c \in braced : c[1] < b[1]})]
                       = SubSeq(urlPath, b[1] + 1, b[2] - 1)

\* a path whose two parameters carry the same name, and one with a segment
\* that only opens a brace
C11_Witness ==
    /\ analysis.done
    /\ urlPath = PRepeated
    /\ analysis.path_parameters = << <<"a">>, <<"a">> >>

C11_WitnessNone ==
    /\ analysis.done
    /\ urlPath \in {<<>>, <<"/", "{", "a">>}
    /\ analysis.path_parameters = <<>>

\* the calls of the URL path validator that carried a path
PathCalls == {i \in 1..Len(calls) : IsStrAt(calls[i].params, "url_path")}

\* C12: for every path that contains "/users/", does not contain "/me/" and
\* whose last segment is a brace-delimited parameter, the specification
\* ValidateURLPath synthesizes gets at least one issue from the
\* singular-user-resources rule and none from the method-path-consistency rule
C12_UsersResourcePath ==
    \A i \in PathCalls :
        LET path == calls[i].params["url_path"].v
            ret == calls[i].ret
        IN  (Contains(path, SlashUsersSlash) /\ ~Contains(path, SlashMeSlash)
             /\ LastSegmentIsParam(path)) =>
                /\ ret.err = "nil"
                /\ Len(IssuesOf(ret.value.results["solace_singular_user_resources"])) >= 1
                /\ IssuesOf(ret.value.results["solace_rest_rules"]) = <<>>

\* C13: a successful ValidateURLPath call returns a map with exactly the two
\* entries results and path_analysis; results holds one Result for every
\* registered rule, and path_analysis holds the path, its parameters, its
\* classification and its methods as computed from the input path
C13_ReportAndAnalysisMerged ==
    \A i \in PathCalls :
        LET path == calls[i].params["url_path"].v
            ret == calls[i].ret
        IN  ret.err = "nil" =>
                /\ DOMAIN ret.value = {"results", "path_analysis"}
                /\ DOMAIN ret.value.results = DOMAIN rules
                /\ \A name \in DOMAIN rules :
                      ret.value.results[name].status \in {"passed", "failed", "skipped", "error"}
                /\ DOMAIN ret.value.path_analysis
                      = {"path", "path_parameters", "ends_with_resource", "appropriate_methods"}
                /\ ret.value.path_analysis.path = path
                /\ Len(ret.value.path_analysis.path_parameters) = Cardinality(BracedSegments(path))
                /\ \A b \in BracedSegments(path) :
                      \E k \in 1..Len(ret.value.path_analysis.path_parameters) :
                         ret.value.path_analysis.path_parameters[k] = SubSeq(path, b[1] + 1, b[2] - 1)
                /\ ret.value.path_analysis.ends_with_resource <=> LastSegmentIsParam(path)
                /\ ret.value.path_analysis.appropriate_methods =
                      IF LastSegmentIsParam(path)
                      THEN <<"get", "put", "patch", "delete">>
                      ELSE <<"get", "post">>

\* the documented example path, validated by an engine that also holds
\* declarative rules
C13_Witness ==
    /\ calls # <<>>
    /\ calls[1].params = ("url_path" :> Str(PCloudAgents))
    /\ calls[1].ret.err = "nil"
    /\ Cardinality(DOMAIN calls[1].ret.value.results) > Cardinality(DOMAIN BuiltInRules)
    /\ calls[1].ret.value.path_analysis.path_parameters
          = << <<"d", "a", "t", "a", "c", "e", "n", "t", "e", "r", "I", "d">> >>

\* an enabled declarative rule of one condition of the given type was applied
\* to a specification that has a paths mapping
OneCondition(type) ==
    /\ applied.kind = "JSONRule"
    /\ applied.doc.enabled = "true"
    /\ Len(applied.doc.conditions) = 1
    /\ applied.doc.conditions[1].Type = type
    /\ HasPaths(specIn)

Keys(item) == IF item.t = "map" THEN DOMAIN item.m ELSE {}

\* C14: a method_check condition emits exactly one issue {path, message} iff
\* its path is a key of spec.paths and the operation map of that path has no
\* key equal to the condition's method when letter case is ignored; it emits no
\* issue when the map holds the method in any letter case. (Stated for path
\* items that are mappings.)
C14_MethodCheckIgnoresCase ==
    OneCondition("method_check") =>
        LET c == applied.doc.conditions[1]
            paths == specIn.m["paths"].m
            missing == /\ c.Path \in DOMAIN paths
                       /\ \A key \in Keys(paths[c.Path]) : ToLower(key) # ToLower(c.Method)
        IN  (c.Path \in DOMAIN paths => paths[c.Path].t = "map") =>
                IssuesOf(applied.result)
                    = IF missing THEN <<[path |-> c.Path, message |-> c.Message]>> ELSE <<>>

\* the conditions of a rule that refer to a path the specification lacks
RefersToAbsentPath(c, paths) ==
    c.Type \in {"method_check", "parameter_check"} /\ c.Path \notin DOMAIN paths

\* the part of C15 about absent paths: such a condition adds no issue, and the
\* result is one the rule without these conditions returns
AbsentPathIsNoOp ==
    (applied.kind = "JSONRule" /\ applied.doc.enabled = "true" /\ HasPaths(specIn)) =>
        LET paths == specIn.m["paths"].m
            conditions == applied.doc.conditions
            others == SelectSeq(conditions, LAMBDA c : ~RefersToAbsentPath(c, paths))
            issues == IssuesOf(applied.result)
        IN  /\ \A i \in 1..Len(conditions) :
                  RefersToAbsentPath(conditions[i], paths) =>
                      \A k \in 1..Len(issues) : issues[k].message # conditions[i].Message
            /\ applied.result \in {SetResults(list) : list \in ApplyConditions(specIn.m, others)}
            /\ others = <<>> => applied.result.status = "passed"

\* C15 as stated: a method_check or parameter_check condition whose path is not
\* a key of spec.paths adds no issue and leaves the status alone; a
\* parameter_check condition whose path is a key emits exactly one issue
\* {path, message} iff the path item has no parameters key
C15_ParameterCheckAnyShape ==
    /\ AbsentPathIsNoOp
    /\ OneCondition("parameter_check") =>
          LET c == applied.doc.conditions[1]
              paths == specIn.m["paths"].m
          IN  c.Path \in DOMAIN paths =>
                  IssuesOf(applied.result)
                      = IF "parameters" \notin Keys(paths[c.Path])
                        THEN <<[path |-> c.Path, message |-> c.Message]>> ELSE <<>>

\* C15, amended: as above, but a parameter_check condition whose path is a key
\* emits its one issue iff the path item is a mapping without a parameters key;
\* a path item that is not a mapping gets no issue
C15_ParameterCheckMappingOnly ==
    /\ AbsentPathIsNoOp
    /\ OneCondition("parameter_check") =>
          LET c == applied.doc.conditions[1]
              paths == specIn.m["paths"].m
          IN  c.Path \in DOMAIN paths =>
                  IssuesOf(applied.result)
                      = IF paths[c.Path].t = "map" /\ "parameters" \notin DOMAIN paths[c.Path].m
                        THEN <<[path |-> c.Path, message |-> c.Message]>> ELSE <<>>

\* /widgets is there without parameters, and the rule fails with the one issue
C15_Witness ==
    /\ OneCondition("parameter_check")
    /\ PWidgets \in DOMAIN specIn.m["paths"].m
    /\ specIn.m["paths"].m[PWidgets] = Map("post" :> EmptyMap)
    /\ applied.result.status = "failed"
    /\ Len(applied.result.issues) = 1

\* /widgets is absent: the two conditions on it are silent and the rule fails
\* on the naming condition alone
C15_WitnessAbsent ==
    /\ applied.kind = "JSONRule"
    /\ applied.doc.name = "widgets"
    /\ HasPaths(specIn)
    /\ PWidgets \notin DOMAIN specIn.m["paths"].m
    /\ applied.result.status = "failed"
    /\ Len(applied.result.issues) = 1

\* /widgets is there with a null item: no issue
C15_WitnessNonMapping ==
    /\ OneCondition("parameter_check")
    /\ PWidgets \in DOMAIN specIn.m["paths"].m
    /\ specIn.m["paths"].m[PWidgets] = Nil
    /\ applied.result.status = "passed"

\* the non-empty '/'-segments of a path, as (first, last) positions
Segments(path) ==
    {b \in (1..Len(path)) \X (1..Len(path)) :
        /\ b[1] <= b[2]
        /\ \A k \in b[1]..b[2] : path[k] # "/"
        /\ (b[1] = 1 \/ path[b[1] - 1] = "/")
        /\ (b[2] = Len(path) \/ path[b[2] + 1] = "/")}

ViolatingSegments(path, pattern) ==
    {b \in Segments(path) : ~MatchString(pattern, SubSeq(path, b[1], b[2]))}

\* C16: a resource_naming condition emits at most one issue per path key:
\* exactly one iff some non-empty segment of the path fails the pattern, and
\* its segment is the leftmost such segment
C16_FirstViolationPerPath ==
    OneCondition("resource_naming") =>
        LET c == applied.doc.conditions[1]
            paths == specIn.m["paths"].m
            issues == IssuesOf(applied.result)
            about(path) == {k \in 1..Len(issues) : issues[k].path = path}
        IN  /\ \A k \in 1..Len(issues) : issues[k].path \in DOMAIN paths
            /\ \A path \in DOMAIN paths :
                  LET violating == ViolatingSegments(path, c.Pattern)
                  IN  IF violating = {} THEN about(path) = {}
                      ELSE LET first == CHOOSE b \in violating : \A o \in violating : b[1] <= o[1]
                           IN  /\ Cardinality(about(path)) = 1
                               /\ \A k \in about(path) :
                                     issues[k] = [path |-> path,
                                                  segment |-> SubSeq(path, first[1], first[2]),
                                                  message |-> c.Message]

\* /f/{id}/v{n} has two violating segments and gets the one issue for {id}
C16_Witness ==
    /\ OneCondition("resource_naming")
    /\ DOMAIN specIn.m["paths"].m = {PFileVersion}
    /\ Cardinality(ViolatingSegments(PFileVersion, applied.doc.conditions[1].Pattern)) = 2
    /\ applied.result.status = "failed"
    /\ Len(applied.result.issues) = 1
    /\ applied.result.issues[1].segment = <<"{", "i", "d", "}">>

NoSchemaDefinitions(c) ==
    [field |-> c.Field, message |-> "No schema definitions found in API spec"]

\* C17: a schema_field condition scans components.schemas when it exists and
\* top-level definitions otherwise; the no-schema-definitions issue is emitted
\* only when neither mapping exists
C17_FallsBackToDefinitions ==
    OneCondition("schema_field") =>
        LET c == applied.doc.conditions[1]
            spec == specIn.m
            hasSchemas == IsMapAt(spec, "components") /\ IsMapAt(spec["components"].m, "schemas")
            hasDefinitions == IsMapAt(spec, "definitions")
        IN  NoSchemaDefinitions(c) \in Range(IssuesOf(applied.result))
                <=> ~hasSchemas /\ ~hasDefinitions

\* C18: a schema_field condition adds at most one issue, and exactly the
\* no-schema-definitions issue with the condition's field when the
\* specification has neither a components key nor a definitions key
C18_AtMostOneSchemaIssue ==
    OneCondition("schema_field") =>
        LET c == applied.doc.conditions[1]
            issues == IssuesOf(applied.result)
        IN  /\ Len(issues) <= 1
            /\ ("components" \notin DOMAIN specIn.m /\ "definitions" \notin DOMAIN specIn.m)
                  => issues = <<NoSchemaDefinitions(c)>>

C18_Witness ==
    /\ OneCondition("schema_field")
    /\ DOMAIN specIn.m = {"paths"}
    /\ applied.doc.conditions[1].Format = "date-time"
    /\ applied.result.status = "failed"
    /\ applied.result.issues = <<NoSchemaDefinitions(applied.doc.conditions[1])>>

\* a schema whose properties contain the field
HoldsField(schema, field) ==
    /\ schema.t = "map"
    /\ IsMapAt(schema.m, "properties")
    /\ field \in DOMAIN schema.m["properties"].m

\* the property's format is missing or different, also when the property is
\* not a mapping
WrongFormat(schema, c) ==
    LET property == schema.m["properties"].m[c.Field]
    IN  ~(property.t = "map" /\ IsStrAt(property.m, "format") /\ property.m["format"].v = c.Format)

\* C19: when a schema of components.schemas holds the condition's field, the
\* field counts as found at the schema the scan stops at: the issues are then
\* exactly one format issue naming that schema if the format is set and the
\* property's format is missing or different (a property that is not a mapping
\* included), and none otherwise; never a field-not-found issue
C19_FieldFoundStopsScan ==
    OneCondition("schema_field") =>
        LET c == applied.doc.conditions[1]
            spec == specIn.m
            hasSchemas == IsMapAt(spec, "components") /\ IsMapAt(spec["components"].m, "schemas")
            schemas == spec["components"].m["schemas"].m
            holders == {name \in DOMAIN schemas : HoldsField(schemas[name], c.Field)}
        IN  (hasSchemas /\ holders # {}) =>
                \E name \in holders :
                    IssuesOf(applied.result)
                        = IF c.Format # "" /\ WrongFormat(schemas[name], c)
                          THEN <<[schema |-> name, field |-> c.Field,
                                  message |-> c.Message \o " (format should be " \o c.Format \o ")"]>>
                          ELSE <<>>

ConditionTypes ==
    {"path_pattern", "method_check", "parameter_check", "resource_naming", "schema_field"}

\* the patterns of the model that are regular expressions
Compilable(pattern) == pattern \in {"^/api/", "^[a-z][a-zA-Z0-9]*$"}

\* the defects C20 lists
DefectiveCondition(c) ==
    \/ c.Type = ""
    \/ c.Message = ""
    \/ c.Type \notin ConditionTypes
    \/ c.Type \in {"path_pattern", "resource_naming"} /\ (c.Pattern = "" \/ ~Compilable(c.Pattern))
    \/ c.Type = "method_check" /\ (c.Path = <<>> \/ c.Method = "")
    \/ c.Type = "parameter_check" /\ c.Path = <<>>
    \/ c.Type = "schema_field" /\ c.Field = ""

DefectiveDefinition(doc) ==
    \/ doc.name = ""
    \/ doc.description = ""
    \/ doc.conditions = <<>>
    \/ \E i \in 1..Len(doc.conditions) : DefectiveCondition(doc.conditions[i])

DeclarativeRules(registry) == {name \in DOMAIN registry : registry[name].kind = "JSONRule"}

\* C20: a rule definition is rejected at load time iff its name or description
\* is empty, it has no condition, or one of its conditions lacks its type or
\* message, has an unrecognized type or lacks what its type requires (a
\* compilable pattern, a path and a method, a path, a field); the enabled flag
\* plays no part; a rejected definition never reaches the registry, whose
\* declarative rules all have a non-empty list of conditions of the five types
C20_LoadValidation ==
    /\ dir # <<>> =>
          LET doc == dir[1].doc
          IN  /\ (loading.err # "nil") <=> DefectiveDefinition(doc)
              /\ ~DefectiveDefinition(doc) =>
                    /\ DOMAIN loading.rules = {doc.name}
                    /\ loading.rules[doc.name].Conditions = doc.conditions
              /\ DefectiveDefinition(doc) => DeclarativeRules(rules) = {}
              /\ (pc = "ready" /\ ~DefectiveDefinition(doc)) => DeclarativeRules(rules) = {doc.name}
    /\ \A name \in DeclarativeRules(rules) :
          /\ rules[name].Conditions # <<>>
          /\ \A i \in 1..Len(rules[name].Conditions) :
                rules[name].Conditions[i].Type \in ConditionTypes

\* a definition with a pattern that does not compile, next to a sound
\* condition: the engine is ready with the built-in rules only
C20_Witness ==
    /\ pc = "ready"
    /\ dir # <<>>
    /\ dir[1].doc.enabled = "true"
    /\ Len(dir[1].doc.conditions) > 1
    /\ dir[1].doc.conditions[1] = ApiPrefix
    /\ dir[1].doc.conditions[Len(dir[1].doc.conditions)].Type = "resource_naming"
    /\ dir[1].doc.conditions[Len(dir[1].doc.conditions)].Pattern = "("
    /\ loading.err # "nil"
    /\ rules = BuiltInRules

\* a sound definition that is disabled is registered all the same
C20_WitnessDisabled ==
    /\ pc = "ready"
    /\ dir # <<>>
    /\ dir[1].doc.enabled = "false"
    /\ "naming" \in DOMAIN rules
    /\ ~rules["naming"].Enabled

\* a visited entry that is a .json file and fails to load
FailsToLoad(entry) == ~entry.IsDir /\ entry.Json /\ ~ValidRuleFile(entry)

\* C21: when a .json file of the rules directory fails to load, the walk stops
\* at that file, directory loading returns an error that names it and no rule,
\* the rules of the valid files visited before it included; construction still
\* completes and the registry holds exactly the three built-in rules.
C21_AbortOnMalformedFile ==
    LET failing == {i \in 1..Len(dir) : FailsToLoad(dir[i])}
        returned == LoadReturn(loading)
    IN  /\ failing # {} =>
              /\ failing = {Len(dir)}
              /\ pc \in {"register", "ready"}
              /\ returned.rules = <<>>
              /\ \E cause \in {"error parsing JSON rule", "invalid JSON rule"} :
                    returned.err = "error walking rules directory: error loading rule from "
                                   \o FilePathOf(Len(dir)) \o ": " \o cause
        /\ (failing # {} /\ pc = "ready") => rules = BuiltInRules
        /\ (failing = {} /\ dirExists) => returned.err = "nil"

\* a malformed file visited after a valid one: the valid rule is not registered
C21_Witness ==
    /\ pc = "ready"
    /\ Len(dir) >= 2
    /\ ValidRuleFile(dir[1])
    /\ dir[1].doc.enabled = "true"
    /\ FailsToLoad(dir[Len(dir)])
    /\ loading.rules # <<>>
    /\ rules = BuiltInRules

\* the Results of the report a call returned (none when the call failed)
ResultsOf(ret) ==
    IF ret.err # "nil" THEN {} ELSE {ret.value.results[n] : n \in DOMAIN ret.value.results}

\* C22: every Result of every report Validate or ValidateURLPath returns has a
\* status among passed, failed, skipped and error; it carries an issues list iff
\* its status is failed, and the list is then not empty; a passed Result carries
\* neither issues nor message; an error or skipped Result carries a message and
\* no issues.
C22_ResultShape ==
    \A i \in 1..Len(calls) :
        \A result \in ResultsOf(calls[i].ret) :
            /\ "status" \in DOMAIN result
            /\ result.status \in {"passed", "failed", "skipped", "error"}
            /\ "issues" \in DOMAIN result <=> result.status = "failed"
            /\ result.status = "failed" => Len(result.issues) >= 1
            /\ result.status = "passed" => DOMAIN result = {"status"}
            /\ result.status \in {"error", "skipped"} => DOMAIN result = {"status", "message"}

\* a Validate report that holds a skipped and an error Result, and a
\* ValidateURLPath report that holds a passed and a failed one
C22_Witness ==
    /\ Len(calls) >= 1
    /\ "api_spec" \in DOMAIN calls[1].params
    /\ {"skipped", "error"} \subseteq {r.status : r \in ResultsOf(calls[1].ret)}

C22_WitnessURLPath ==
    /\ Len(calls) >= 1
    /\ "url_path" \in DOMAIN calls[1].params
    /\ {"failed", "passed"} \subseteq {r.status : r \in ResultsOf(calls[1].ret)}

\* the conditions of a rule in another order
Permuted(conditions, p) == [i \in 1..Len(conditions) |-> conditions[p[i]]]

\* the multiset of the issues of a list
BagOf(issues) ==
    [issue \in Range(issues) |-> Cardinality({i \in 1..Len(issues) : issues[i] = issue})]

\* an enabled declarative rule was applied to a specification with a paths mapping
EnabledRuleApplied ==
    /\ applied.kind = "JSONRule"
    /\ applied.doc.enabled = "true"
    /\ HasPaths(specIn)

\* the results the applied rule returns with its conditions in the order p
PermutedResults(p) ==
    LET rule == NewJSONRuleFromFile(applied.doc, FilePathOf(1)).rule
    IN  JSONRuleApply([rule EXCEPT !.Conditions = Permuted(rule.Conditions, p)], specIn)

\* C23: for an enabled declarative rule and a spec with a paths mapping, the
\* status is failed iff a condition produced an issue, and the rule with its
\* conditions in any other order returns the same status and the same multiset
\* of issues.
C23_ConditionOrderIrrelevant ==
    EnabledRuleApplied =>
        /\ applied.result.status = "failed" <=> Len(IssuesOf(applied.result)) >= 1
        /\ \A p \in Perms(1..Len(applied.doc.conditions)) :
              \A other \in PermutedResults(p) :
                 /\ other.status = applied.result.status
                 /\ BagOf(IssuesOf(other)) = BagOf(IssuesOf(applied.result))

RequestError(message) == [value |-> Nil, err |-> message]

\* C24: a request-level failure returns an error and a nil report: Validate
\* without a string api_spec returns "missing or invalid api_spec parameter",
\* Validate on a text that does not parse returns an error, and ValidateURLPath
\* without a string url_path returns "missing or invalid url_path parameter";
\* whenever a call returns an error it returns no report, hence no Result of
\* any rule.
C24_RequestLevelFailure ==
    \A i \in 1..Len(calls) :
        LET params == calls[i].params
            ret == calls[i].ret
        IN  /\ (calls[i].op = "Validate" /\ ~IsStrAt(params, "api_spec")) =>
                   ret = RequestError("missing or invalid api_spec parameter")
            /\ (calls[i].op = "Validate" /\ IsStrAt(params, "api_spec")
                 /\ params["api_spec"].v \notin ParseableTexts) =>
                   ret.err # "nil" /\ ret.value = Nil
            /\ (calls[i].op = "ValidateURLPath" /\ ~IsStrAt(params, "url_path")) =>
                   ret = RequestError("missing or invalid url_path parameter")
            /\ ret.err # "nil" => ret.value = Nil /\ ResultsOf(ret) = {}
            /\ ret.err = "nil" => "results" \in DOMAIN ret.value

\* the three failures: a url_path that is not a string, an api_spec that is
\* not a string, and a text that does not parse
C24_Witness ==
    /\ Len(calls) = 1
    /\ calls[1].op = "ValidateURLPath"
    /\ calls[1].params = ("url_path" :> Num)
    /\ calls[1].ret.value = Nil

C24_WitnessNoSpec ==
    /\ Len(calls) = 1
    /\ calls[1].op = "Validate"
    /\ "api_spec" \in DOMAIN calls[1].params
    /\ calls[1].params["api_spec"] = Num
    /\ calls[1].ret.value = Nil

C24_WitnessUnparsable ==
    /\ Len(calls) = 1
    /\ calls[1].op = "Validate"
    /\ IsStrAt(calls[1].params, "api_spec")
    /\ calls[1].params["api_spec"].v = BadYAML
    /\ "rules" \in DOMAIN calls[1].params
    /\ calls[1].ret.value = Nil

\* the returns a finished call can have when it runs alone on the registry
AloneReturns(call) ==
    CASE call.op = "Validate" -> Validate(rules, call.params)
      [] call.op = "ValidateURLPath" -> ValidateURLPath(rules, call.params)
      [] call.op = "GetRules" -> GetRules(rules)

\* C25: while Validate, ValidateURLPath and GetRules calls interleave, the
\* registry stays the one construction built (same keys, same rule under each
\* key, each rule's name, enabled flag and conditions as loaded), and every
\* call that has finished returns what it can return when it runs alone.
C25_CallsDoNotInterfere ==
    /\ rules = NewValidator(dirExists, dir)
    /\ \A g \in DOMAIN goroutines :
          goroutines[g].at = "done" => goroutines[g].ret \in AloneReturns(goroutines[g])

\* a Validate call returns its report while a ValidateURLPath call is half-way
\* through its rules
C25_Witness ==
    \E g, h \in DOMAIN goroutines :
        /\ goroutines[g].op = "Validate"
        /\ goroutines[g].at = "done"
        /\ goroutines[g].ret.err = "nil"
        /\ DOMAIN goroutines[g].ret.value.results = {"solace_rest_rules", "audit_fields"}
        /\ goroutines[h].op = "ValidateURLPath"
        /\ goroutines[h].at = "loop"
        /\ goroutines[h].results # <<>>
        /\ goroutines[h].ranged # {}

\* the goroutines that are at a statement which reads or writes lastPing: the
\* monitor at time.Since(s.lastPing), a handler at s.lastPing = time.Now()
AtLastPing ==
    {h \in 1..MaxHandlers : server.handlers[h].pc = "locked"}
    \cup (IF server.monitor.pc = "locked" THEN {Monitor} ELSE {})

\* C26: once the server has started, a goroutine that is about to read or
\* write lastPing holds the mutex, and no two goroutines (a ping handler and
\* the monitor, or two ping handlers) are at such a statement together.
C26_LastPingGuarded ==
    server.started =>
        /\ \A a \in AtLastPing : server.mu = {a}
        /\ Cardinality(AtLastPing) <= 1
        /\ Cardinality(server.mu) <= 1

\* a ping handler writes lastPing while another handler and the monitor wait
\* for the mutex
C26_Witness ==
    /\ server.started
    /\ server.monitor.pc = "lock"
    /\ \E h, k \in 1..MaxHandlers :
          /\ server.handlers[h].pc = "locked"
          /\ server.handlers[k].pc = "handlePing"

C26_WitnessMonitor ==
    /\ server.started
    /\ server.monitor.pc = "locked"
    /\ \E h \in 1..MaxHandlers : server.handlers[h].pc = "handlePing"

\* the text parses, to nothing or to a document whose "paths" is not a mapping
WithoutPaths(params) ==
    /\ IsStrAt(params, "api_spec")
    /\ LET parsed == parseAPISpec(params["api_spec"].v)
       IN  /\ parsed.err = "nil"
           /\ parsed.spec = Nil \/ ~IsMapAt(parsed.spec.m, "paths")

\* the rule is a disabled declarative rule
Disabled(rule) == rule.kind = "JSONRule" /\ ~rule.Enabled

\* the registered names a call asks for: the listed ones, or all of them
AskedRules(params) ==
    IF ExtractRules(params) = <<>> THEN DOMAIN rules
    ELSE Range(ExtractRules(params)) \cap DOMAIN rules

\* C27: when the text parses to nothing or to a document without a paths
\* mapping, Validate returns a report and no request-level error; in the
\* report every structural rule and every enabled declarative rule applied has
\* status "error", never "passed" or "failed", and every disabled declarative
\* rule has status "skipped".
C27_NoPathsIsRuleError ==
    \A i \in 1..Len(calls) :
        (calls[i].op = "Validate" /\ WithoutPaths(calls[i].params)) =>
            /\ calls[i].ret.err = "nil"
            /\ \A n \in AskedRules(calls[i].params) :
                   /\ n \in DOMAIN calls[i].ret.value.results
                   /\ calls[i].ret.value.results[n].status =
                          IF Disabled(rules[n]) THEN "skipped" ELSE "error"
                   /\ ~Disabled(rules[n]) =>
                          calls[i].ret.value.results[n] \in {InvalidSpec, NoPaths}

\* every rule applied to the empty text, a disabled declarative rule among them
C27_Witness ==
    /\ Len(calls) = 1
    /\ calls[1].op = "Validate"
    /\ calls[1].params = ("api_spec" :> Str(""))
    /\ \E n \in DOMAIN rules : Disabled(rules[n])
    /\ \E n \in DOMAIN rules : rules[n].kind = "JSONRule" /\ rules[n].Enabled
    /\ \A n \in DOMAIN rules :
          calls[1].ret.value.results[n] = IF Disabled(rules[n]) THEN Skipped ELSE InvalidSpec

\* a document whose "paths" is a scalar
C27_WitnessScalarPaths ==
    /\ Len(calls) = 1
    /\ calls[1].op = "Validate"
    /\ IsStrAt(calls[1].params, "api_spec")
    /\ calls[1].params["api_spec"].v = ScalarPathsYAML
    /\ calls[1].ret.err = "nil"
    /\ \E n \in DOMAIN calls[1].ret.value.results :
          calls[1].ret.value.results[n] = NoPaths

\* what the engine's parser makes of the text synthesized for a path: [spec, err]
Synthesized(path) ==
    parseAPISpec(createOpenAPISpec(path, extractPathParams(path),
                                   determineHTTPMethods(endsWithResource(path))))

\* a required, string-typed path parameter of the given name
PathParameter(name) ==
    Map(("name" :> Str(Join(name))) @@ ("in" :> Str("path"))
        @@ ("required" :> Bool(TRUE)) @@ ("schema" :> Map("type" :> Str("string"))))

\* the operation advertises exactly these parameter names, in this order
Advertises(operation, names) ==
    /\ operation.t = "map"
    /\ IF names = <<>> THEN "parameters" \notin DOMAIN operation.m
       ELSE /\ "parameters" \in DOMAIN operation.m
            /\ operation.m["parameters"] = List([k \in 1..Len(names) |-> PathParameter(names[k])])

\* the synthesized specification is the one-path document of the claim
ExposesOnePath(path) ==
    LET parsed == Synthesized(path)
        methods == determineHTTPMethods(endsWithResource(path))
    IN  /\ parsed.err = "nil"
        /\ parsed.spec # Nil
        /\ IsMapAt(parsed.spec.m, "paths")
        /\ DOMAIN parsed.spec.m["paths"].m = {path}
        /\ LET item == parsed.spec.m["paths"].m[path]
           IN  /\ item.t = "map"
               /\ DOMAIN item.m = Range(methods)
               /\ \A method \in DOMAIN item.m :
                      Advertises(item.m[method],
                                 IF method = "post" THEN <<>> ELSE extractPathParams(path))

\* a path of "/"-led segments whose parameters have names without braces
WellFormedPath(path) ==
    /\ path # <<>>
    /\ Head(path) = "/"
    /\ \A k \in 1..Len(extractPathParams(path)) :
          /\ extractPathParams(path)[k] # <<>>
          /\ \A j \in 1..Len(extractPathParams(path)[k]) :
                extractPathParams(path)[k][j] \notin {"{", "}"}

\* C28: for every path handed to ValidateURLPath, the synthesized specification
\* parses to a document with exactly one path key, the input path, whose
\* operations are exactly the derived methods; every operation but POST
\* advertises one required string-typed path parameter per extracted name, in
\* extraction order, and POST advertises none.
C28_SynthesizedSpec ==
    \A i \in PathCalls : ExposesOnePath(calls[i].params["url_path"].v)

\* the document of the claim is synthesized for every well-formed path
WellFormedSynthesized ==
    \A i \in PathCalls :
        WellFormedPath(calls[i].params["url_path"].v) =>
            ExposesOnePath(calls[i].params["url_path"].v)

\* the ends-with-ID test of the method-path-consistency rule
EndsWithID(path) == Contains(path, <<"/", "{">>) /\ HasSuffix(path, <<"}">>)

\* the synthesizer and the rule classify the path alike
ClassifiedAlike(path) == endsWithResource(path) <=> EndsWithID(path)

\* the call succeeded and the method-path-consistency rule was applied
RestRuleReported(i) ==
    /\ calls[i].ret.err = "nil"
    /\ "solace_rest_rules" \in DOMAIN rules
    /\ rules["solace_rest_rules"].kind = "SolaceRestRules"

\* C29: for every path, the synthesizer's ends_with_resource equals the
\* ends-with-ID test of the method-path-consistency rule, and in every
\* successful ValidateURLPath call the solace_rest_rules result is "passed".
C29_SynthesizerAgreesWithRule ==
    \A i \in PathCalls :
        /\ ClassifiedAlike(calls[i].params["url_path"].v)
        /\ RestRuleReported(i) =>
               calls[i].ret.value.results["solace_rest_rules"].status = "passed"

\* where the two tests agree, the derived methods pass the rule
AlikePasses ==
    \A i \in PathCalls :
        (ClassifiedAlike(calls[i].params["url_path"].v) /\ RestRuleReported(i)) =>
            calls[i].ret.value.results["solace_rest_rules"].status = "passed"

\* C30: with keep-alive on, when the self-ping the monitor sent has been
\* answered by the server, lastPing is the current time; and the monitor sends
\* a self-ping after an answered one only when more than 5 minutes have passed
\* since then.
C30_SelfPingResetsTimer ==
    server.keepAlive =>
        /\ server.selfPing = "answered" => server.lastPing = server.now
        /\ (server.monitor.pc = "post" /\ server.logged # <<>>) =>
               server.now - server.logged[1] > KeepAlivePeriod

====
